---- MODULE Spec2Model ----
(***************************************************************************)
(* Verification model of the gainlineup cascade engine (Block, Input,      *)
(* SignalNode, sweeps).                                                    *)
(*                                                                         *)
(* Arithmetic.  The source computes in f64 over decibel and linear         *)
(* quantities.  The model computes in exact arithmetic:                    *)
(*   - a linear quantity is a positive rational <<n, d>> in lowest terms;  *)
(*   - a decibel quantity is a record [k, q] that stands for               *)
(*         k + 10*log10(q)   (k an integer, q a rational, 1 <= q < 10),    *)
(*     so an integer number of dB is [k |-> n, q |-> <<1, 1>>] and         *)
(*     10*log10(2) dB (3.0103 dB) is [k |-> 0, q |-> <<2, 1>>].            *)
(* The representation is canonical: two decibel quantities are equal as    *)
(* reals iff their records are equal.  A conversion to linear is defined   *)
(* where the result is rational (k a multiple of 10); the inputs of the    *)
(* model are chosen on that grid.  A noise power is BOLTZMANN * X watts;   *)
(* it is kept as the decibel quantity 10*log10(X) with the factor          *)
(* BOLTZMANN apart, and an SFDR as the two terms of its difference.        *)
(***************************************************************************)
EXTENDS Integers, Sequences, FiniteSets, TLC

\* ------------------------------------------------------------------------
\* Option<T>
\* ------------------------------------------------------------------------
None == <<>>
Some(v) == <<v>>
IsSome(o) == o # <<>>
IsNone(o) == o = <<>>
Unwrap(o) == o[1]

\* ------------------------------------------------------------------------
\* Exact rationals <<n, d>>, d > 0, lowest terms
\* ------------------------------------------------------------------------
Abs(x) == IF x < 0 THEN -x ELSE x

RECURSIVE Gcd(_, _)
Gcd(a, b) == IF b = 0 THEN a ELSE Gcd(b, a % b)

Rat(n, d) ==
    LET s == IF d < 0 THEN -1 ELSE 1
        g == Gcd(Abs(n), Abs(d))
    IN  <<(s * n) \div g, (s * d) \div g>>

RInt(n) == <<n, 1>>
\* common factors are divided out before multiplying
RAdd(a, b) ==
    LET g == Gcd(a[2], b[2])
    IN  Rat(a[1] * (b[2] \div g) + b[1] * (a[2] \div g), (a[2] \div g) * b[2])
RSub(a, b) == RAdd(a, <<-b[1], b[2]>>)
RMul(a, b) ==
    LET g1 == Gcd(Abs(a[1]), b[2])
        g2 == Gcd(Abs(b[1]), a[2])
    IN  Rat((a[1] \div g1) * (b[1] \div g2), (a[2] \div g2) * (b[2] \div g1))
RDiv(a, b) == RMul(a, Rat(b[2], b[1]))
RInv(a) == Rat(a[2], a[1])
RLt(a, b) == a[1] * b[2] < b[1] * a[2]
RLe(a, b) == a[1] * b[2] <= b[1] * a[2]

RECURSIVE RPow(_, _)
RPow(a, c) == IF c = 0 THEN RInt(1) ELSE RMul(a, RPow(a, c - 1))

RECURSIVE Pow10(_)
Pow10(e) == IF e = 0 THEN 1 ELSE 10 * Pow10(e - 1)

\* 10^e as a rational, e any integer
RPow10(e) == IF e >= 0 THEN <<Pow10(e), 1>> ELSE <<1, Pow10(-e)>>

\* ------------------------------------------------------------------------
\* Decibel quantities [k, q] = k + 10*log10(q), 1 <= q < 10
\* ------------------------------------------------------------------------
RECURSIVE DbNorm(_, _)
DbNorm(k, q) ==
    IF RLt(q, RInt(1)) THEN DbNorm(k - 10, RMul(q, RInt(10)))
    ELSE IF RLe(RInt(10), q) THEN DbNorm(k + 10, RDiv(q, RInt(10)))
    ELSE [k |-> k, q |-> q]

DbInt(n) == [k |-> n, q |-> <<1, 1>>]
DbAdd(x, y) == DbNorm(x.k + y.k, RMul(x.q, y.q))
DbSub(x, y) == DbNorm(x.k - y.k, RDiv(x.q, y.q))
DbNeg(x) == DbNorm(-x.k, RInv(x.q))
\* c * x for a natural number c
DbTimes(c, x) == DbNorm(c * x.k, RPow(x.q, c))

\* 10^(j/10) for j = 1..9, to six digits, as numerators over 100000
Root10Table == <<125893, 158489, 199526, 251189, 316228,
                 398107, 501187, 630957, 794328>>

\* q < 10^(j/10) for 1 <= q < 10 and 1 <= j <= 9.  10^(j/10) is irrational,
\* so the two never coincide; the comparison is made on the six-digit
\* table and is undefined (no value) inside the table's rounding band.
RLtRoot10(q, j) ==
    LET lhs == q[1] * 100000
        rhs == Root10Table[j] * q[2]
    IN  IF Abs(lhs - rhs) <= q[2]
        THEN CHOOSE b \in {} : TRUE
        ELSE lhs < rhs

\* x < y on decibel quantities
DbLt(x, y) ==
    LET d == y.k - x.k      \* x < y  iff  q_x / q_y < 10^(d/10)
        r == RDiv(x.q, y.q) \* 1/10 < r < 10
    IN  IF d >= 10 THEN TRUE
        ELSE IF d <= -10 THEN FALSE
        ELSE IF d = 0 THEN RLt(r, RInt(1))
        ELSE IF d > 0
             THEN IF RLe(r, RInt(1)) THEN TRUE ELSE RLtRoot10(r, d)
             ELSE \* -10 < d < 0: r < 10^(d/10) iff 10*r < 10^((10+d)/10)
                  IF RLe(RInt(1), r) THEN FALSE
                  ELSE RLtRoot10(RMul(r, RInt(10)), 10 + d)
DbGt(x, y) == DbLt(y, x)
DbLe(x, y) == ~DbLt(y, x)

\* ------------------------------------------------------------------------
\* Conversion helpers (crate rfconversions)
\* ------------------------------------------------------------------------
\* 10^(x/10); rational only when the integer part of x is a multiple of 10
db_to_linear(x) ==
    IF x.k % 10 = 0
    THEN RMul(x.q, RPow10(x.k \div 10))
    ELSE CHOOSE r \in {} : TRUE

\* 10*log10(r), r > 0
linear_to_db(r) == DbNorm(0, r)

noise_factor_from_noise_figure(nf_db) == db_to_linear(nf_db)
noise_figure_from_noise_factor(f) == linear_to_db(f)

\* IEEE reference temperature of the noise-figure conversions, in K
ReferenceTemperatureK == 290
noise_temperature_from_noise_factor(f) ==
    RMul(RInt(ReferenceTemperatureK), RSub(f, RInt(1)))
noise_temperature_from_noise_figure(nf_db) ==
    noise_temperature_from_noise_factor(noise_factor_from_noise_figure(nf_db))

\* dBm <-> W : 0 dBm is 1 mW
dbm_to_watts(x) == db_to_linear(DbSub(x, DbInt(30)))
watts_to_dbm(w) == DbAdd(linear_to_db(w), DbInt(30))

\* ------------------------------------------------------------------------
\* Noise powers: multiples of the Boltzmann constant
\* ------------------------------------------------------------------------
\* BOLTZMANN = 1.380649e-23 J/K, as mantissa and decimal exponent
BoltzmannMantissa == <<1380649, 1000000>>
BoltzmannExponent == -23

\* watts_to_dbm(BOLTZMANN * X) for X > 0 given as x = 10*log10(X): every
\* thermal noise power of the program is such a product, and the factor
\* BOLTZMANN is kept apart from x
NoiseDbm(x) == [boltzmann |-> 1, x |-> x]

\* A noise power in dBm is one of three shapes: a NoiseDbm record; a plain
\* decibel record [k, q], which is what a clamp at output_p1db_dbm + 1
\* leaves; or the sum in watts of the two, a record with the thermal part x
\* and the plain part p.
NoisePart(n) == IF "boltzmann" \in DOMAIN n THEN Some(n.x) ELSE None
PowerPart(n) ==
    IF "p" \in DOMAIN n THEN Some(n.p)
    ELSE IF "boltzmann" \in DOMAIN n THEN None
    ELSE Some(n)
NoiseOfParts(x, p) ==
    IF IsNone(p) THEN NoiseDbm(Unwrap(x))
    ELSE IF IsNone(x) THEN Unwrap(p)
    ELSE [boltzmann |-> 1, x |-> Unwrap(x), p |-> Unwrap(p)]

\* a noise power in dBm plus a gain in dB
NoiseDbmAdd(n, gain_db) ==
    LET x == NoisePart(n)
        p == PowerPart(n)
    IN  NoiseOfParts(IF IsNone(x) THEN None ELSE Some(DbAdd(Unwrap(x), gain_db)),
                     IF IsNone(p) THEN None ELSE Some(DbAdd(Unwrap(p), gain_db)))

\* 10^(j/10) for j = 0..10 as numerators over 100, rounded up and rounded
\* down to three digits
Root10Above == <<100, 126, 159, 200, 252, 317, 399, 502, 631, 795, 1000>>
Root10Below == <<100, 125, 158, 199, 251, 316, 398, 501, 630, 794, 1000>>

\* whole numbers of dB at or below, and at or above, a decibel quantity
WholeDbBelow(x) ==
    x.k + CHOOSE j \in 0..9 :
              /\ RLe(<<Root10Above[j + 1], 100>>, x.q)
              /\ ~RLe(<<Root10Above[j + 2], 100>>, x.q)
WholeDbAbove(x) ==
    x.k + CHOOSE j \in 0..10 :
              /\ RLe(x.q, <<Root10Below[j + 1], 100>>)
              /\ j > 0 => ~RLe(x.q, <<Root10Below[j], 100>>)

\* whole numbers of dBm below and above a noise power n: its thermal part is
\*   n.x + 10*BoltzmannExponent + 30 + 10*log10(BoltzmannMantissa),
\* which is no whole number, and a sum of two parts is more than the larger
\* one and at most 3.02 dB more
NoiseDbmBounds(n) ==
    LET boltzmann == DbNorm(10 * BoltzmannExponent + 30, BoltzmannMantissa)
        x == NoisePart(n)
        p == PowerPart(n)
        x_lo == WholeDbBelow(Unwrap(x)) + WholeDbBelow(boltzmann)
        x_hi == WholeDbAbove(Unwrap(x)) + WholeDbAbove(boltzmann)
        p_lo == WholeDbBelow(Unwrap(p))
        p_hi == WholeDbAbove(Unwrap(p))
    IN  IF IsNone(p) THEN <<x_lo, x_hi>>
        ELSE IF IsNone(x) THEN <<p_lo, p_hi>>
        ELSE <<IF x_lo >= p_lo THEN x_lo ELSE p_lo,
               (IF x_hi >= p_hi THEN x_hi ELSE p_hi) + 4>>

\* n > threshold for a noise power n and a power threshold, both in dBm;
\* decided on whole numbers of dB, and without a value when the two are
\* closer than that
NoiseDbmGt(n, threshold) ==
    IF IsNone(NoisePart(n)) THEN DbGt(n, threshold)
    ELSE LET bounds == NoiseDbmBounds(n)
         IN  IF bounds[1] >= WholeDbAbove(threshold) THEN TRUE
             ELSE IF bounds[2] <= WholeDbBelow(threshold) THEN FALSE
             ELSE CHOOSE b \in {} : TRUE

\* 10*log10(10^(x/10) + 10^(y/10)); rational only when x and y differ by a
\* multiple of 10 dB in their integer parts
DbLinearSum(x, y) ==
    LET hi == IF x.k >= y.k THEN x ELSE y
        lo == IF x.k >= y.k THEN y ELSE x
    IN  IF (hi.k - lo.k) % 10 = 0
        THEN DbNorm(hi.k, RAdd(hi.q, RDiv(lo.q, RPow10((hi.k - lo.k) \div 10))))
        ELSE CHOOSE r \in {} : TRUE

\* watts_to_dbm(dbm_to_watts(a) + dbm_to_watts(b)) on noise powers: thermal
\* parts add up, and plain parts add up
NoiseWattsSum(a, b) ==
    LET SumOfParts(u, v) ==
            IF IsNone(u) THEN v
            ELSE IF IsNone(v) THEN u
            ELSE Some(DbLinearSum(Unwrap(u), Unwrap(v)))
    IN  NoiseOfParts(SumOfParts(NoisePart(a), NoisePart(b)),
                     SumOfParts(PowerPart(a), PowerPart(b)))

\* a power p in dBm minus a noise power n in dBm, in dB: the factor
\* BOLTZMANN of a thermal n is kept apart, now as a divisor, and the two
\* terms are kept when n is a sum of a thermal and a plain part
DbMinusNoise(p, n) ==
    IF IsNone(NoisePart(n)) THEN DbSub(p, n)
    ELSE IF IsNone(PowerPart(n))
    THEN [boltzmann |-> -n.boltzmann, x |-> DbSub(p, n.x)]
    ELSE [minuend |-> p, noise |-> n]

\* ------------------------------------------------------------------------
\* Block
\* ------------------------------------------------------------------------
Block(name, gain_db, noise_figure_db, output_p1db_dbm, output_ip3_dbm) ==
    [name |-> name, gain_db |-> gain_db, noise_figure_db |-> noise_figure_db,
     output_p1db_dbm |-> output_p1db_dbm, output_ip3_dbm |-> output_ip3_dbm]

Block_noise_factor(self) == noise_factor_from_noise_figure(self.noise_figure_db)
Block_noise_temperature(self) == noise_temperature_from_noise_figure(self.noise_figure_db)

\* (F - 1) * k * T_block * bandwidth, in dBm
Block_input_noise_power(self, bandwidth) ==
    LET noise_factor == Block_noise_factor(self)
        noise_temperature == Block_noise_temperature(self)
        f_minus_1 == RSub(noise_factor, RInt(1))
    IN  NoiseDbm(DbAdd(linear_to_db(f_minus_1),
                       DbAdd(linear_to_db(noise_temperature),
                             linear_to_db(RInt(bandwidth)))))

Block_output_noise_power(self, bandwidth) ==
    LET input_noise_power == Block_input_noise_power(self, bandwidth)
        output_noise_power_without_compression ==
            NoiseDbmAdd(input_noise_power, self.gain_db)
    IN  IF IsSome(self.output_p1db_dbm)
        THEN IF NoiseDbmGt(output_noise_power_without_compression,
                           DbAdd(Unwrap(self.output_p1db_dbm), DbInt(1)))
             THEN DbAdd(Unwrap(self.output_p1db_dbm), DbInt(1))
             ELSE output_noise_power_without_compression
        ELSE output_noise_power_without_compression

\* output_power falling 1 dB below P1dB once it compresses
output_power_clamp_below_p1db(self, input_power) ==
    LET output_power_without_compression == DbAdd(input_power, self.gain_db)
    IN  IF IsSome(self.output_p1db_dbm)
           /\ DbGt(output_power_without_compression,
                   DbAdd(Unwrap(self.output_p1db_dbm), DbInt(1)))
        THEN DbSub(Unwrap(self.output_p1db_dbm), DbInt(1))
        ELSE output_power_without_compression

\* output_power clamping at P1dB itself
output_power_clamp_at_p1db(self, input_power) ==
    LET output_power_without_compression == DbAdd(input_power, self.gain_db)
    IN  IF IsSome(self.output_p1db_dbm)
           /\ DbGt(output_power_without_compression, Unwrap(self.output_p1db_dbm))
        THEN Unwrap(self.output_p1db_dbm)
        ELSE output_power_without_compression

\* the hard clamp at P1dB + 1 dB
output_power(self, input_power) ==
    LET output_power_without_compression == DbAdd(input_power, self.gain_db)
    IN  IF IsSome(self.output_p1db_dbm)
           /\ DbGt(output_power_without_compression,
                   DbAdd(Unwrap(self.output_p1db_dbm), DbInt(1)))
        THEN DbAdd(Unwrap(self.output_p1db_dbm), DbInt(1))
        ELSE output_power_without_compression

power_gain(self, input_power) == DbSub(output_power(self, input_power), input_power)

Block_dynamic_range_db(self, bandwidth_hz) ==
    IF IsNone(self.output_p1db_dbm) THEN None
    ELSE LET p1db == Unwrap(self.output_p1db_dbm)
             noise_floor == Block_output_noise_power(self, bandwidth_hz)
         IN  Some(DbMinusNoise(p1db, noise_floor))

\* input_dynamic_range_db taking 0 dBm for a missing output_p1db_dbm
Block_input_dynamic_range_db_p1db_or_zero(self, bandwidth_hz) ==
    LET p1db == IF IsNone(self.output_p1db_dbm) THEN DbInt(0)
                ELSE Unwrap(self.output_p1db_dbm)
        input_p1db == DbSub(p1db, self.gain_db)
        input_noise == Block_input_noise_power(self, bandwidth_hz)
    IN  Some(DbMinusNoise(input_p1db, input_noise))

Block_input_dynamic_range_db(self, bandwidth_hz) ==
    IF IsNone(self.output_p1db_dbm) THEN None
    ELSE LET input_p1db == DbSub(Unwrap(self.output_p1db_dbm), self.gain_db)
             input_noise == Block_input_noise_power(self, bandwidth_hz)
         IN  Some(DbMinusNoise(input_p1db, input_noise))

\* imd3_output_power_dbm with the slope of a second-order product
imd3_output_power_dbm_slope2(self, input_power_per_tone_dbm) ==
    IF IsNone(self.output_ip3_dbm) THEN None
    ELSE LET oip3 == Unwrap(self.output_ip3_dbm)
             pout == output_power(self, input_power_per_tone_dbm)
         IN  Some(DbSub(DbTimes(2, pout), oip3))

imd3_output_power_dbm(self, input_power_per_tone_dbm) ==
    IF IsNone(self.output_ip3_dbm) THEN None
    ELSE LET oip3 == Unwrap(self.output_ip3_dbm)
             pout == output_power(self, input_power_per_tone_dbm)
         IN  Some(DbSub(DbTimes(3, pout), DbTimes(2, oip3)))

\* imd3_rejection_db without the factor 2
imd3_rejection_db_single(self, input_power_per_tone_dbm) ==
    IF IsNone(self.output_ip3_dbm) THEN None
    ELSE LET oip3 == Unwrap(self.output_ip3_dbm)
             pout == output_power(self, input_power_per_tone_dbm)
         IN  Some(DbSub(oip3, pout))

imd3_rejection_db(self, input_power_per_tone_dbm) ==
    IF IsNone(self.output_ip3_dbm) THEN None
    ELSE LET oip3 == Unwrap(self.output_ip3_dbm)
             pout == output_power(self, input_power_per_tone_dbm)
         IN  Some(DbTimes(2, DbSub(oip3, pout)))

\* one Imd3Point of imd3_sweep, for the input power pin (OIP3 present)
Imd3Point(self, pin) ==
    LET oip3 == Unwrap(self.output_ip3_dbm)
        pout == output_power(self, pin)
        im3 == DbSub(DbTimes(3, pout), DbTimes(2, oip3))
    IN  [input_per_tone_dbm |-> pin,
         output_per_tone_dbm |-> pout,
         im3_output_dbm |-> im3,
         rejection_db |-> DbSub(pout, im3)]

\* ------------------------------------------------------------------------
\* Input
\* ------------------------------------------------------------------------
Input(frequency_hz, bandwidth_hz, power_dbm, noise_temperature_k) ==
    [frequency_hz |-> frequency_hz, bandwidth_hz |-> bandwidth_hz,
     power_dbm |-> power_dbm, noise_temperature_k |-> noise_temperature_k]

\* source temperature assumed when none is given, in K
DefaultNoiseTemperatureK == 270
\* thermal noise density at 290 K, in dBm/Hz, used for the SFDR noise floor
NoiseFloorDbmPerHz == -174

\* 2/3 * (x - y) on decibel quantities x, y, kept as the terms of the
\* product: the quotient x.q / y.q of a long chain has no 32-bit numerator
TwoThirdsOfDifference(x, y) == [c |-> <<2, 3>>, x |-> x, y |-> y]

\* k * T in dBm/Hz, T the source temperature or 270 K
Input_noise_spectral_density(self) ==
    LET t == IF IsSome(self.noise_temperature_k)
             THEN Unwrap(self.noise_temperature_k)
             ELSE RInt(DefaultNoiseTemperatureK)
    IN  NoiseDbm(linear_to_db(t))

\* k * T * bandwidth_hz in dBm, T the source temperature or 270 K
Input_noise_power(self) ==
    LET t == IF IsSome(self.noise_temperature_k)
             THEN Unwrap(self.noise_temperature_k)
             ELSE RInt(DefaultNoiseTemperatureK)
    IN  NoiseDbm(DbAdd(linear_to_db(t), linear_to_db(RInt(self.bandwidth_hz))))

\* the source noise through the stage gain, plus the block's own noise, in
\* watts
Input_output_noise_power_dbm(self, block, stage_power_gain_db) ==
    LET input_noise_power == Input_noise_power(self)
        output_noise_power_from_input_dbm ==
            NoiseDbmAdd(input_noise_power, stage_power_gain_db)
        output_noise_power_from_block_dbm ==
            Block_output_noise_power(block, self.bandwidth_hz)
    IN  NoiseWattsSum(output_noise_power_from_input_dbm,
                      output_noise_power_from_block_dbm)

\* the clamp inlined in Input.cascade_block
Input_output_power_dbm(self, block) ==
    LET output_power_dbm_without_compression == DbAdd(self.power_dbm, block.gain_db)
    IN  IF IsSome(block.output_p1db_dbm)
        THEN IF DbGt(output_power_dbm_without_compression,
                     DbAdd(Unwrap(block.output_p1db_dbm), DbInt(1)))
             THEN DbAdd(Unwrap(block.output_p1db_dbm), DbInt(1))
             ELSE output_power_dbm_without_compression
        ELSE output_power_dbm_without_compression

Input_stage_power_gain_db(self, block) ==
    DbSub(Input_output_power_dbm(self, block), self.power_dbm)

\* the cumulative noise temperature with the reference temperature, 290 K,
\* for a source without one
Input_cumulative_noise_temperature_reference(self, block) ==
    LET block_noise_factor == noise_factor_from_noise_figure(block.noise_figure_db)
        block_noise_temperature == noise_temperature_from_noise_factor(block_noise_factor)
        stage_power_gain_linear == db_to_linear(Input_stage_power_gain_db(self, block))
    IN  IF IsSome(self.noise_temperature_k)
        THEN Some(RAdd(Unwrap(self.noise_temperature_k),
                       RDiv(block_noise_temperature, stage_power_gain_linear)))
        ELSE Some(RAdd(RInt(ReferenceTemperatureK),
                       RDiv(block_noise_temperature, stage_power_gain_linear)))

Input_cumulative_noise_temperature(self, block) ==
    LET block_noise_factor == noise_factor_from_noise_figure(block.noise_figure_db)
        block_noise_temperature == noise_temperature_from_noise_factor(block_noise_factor)
        stage_power_gain_linear == db_to_linear(Input_stage_power_gain_db(self, block))
    IN  IF IsSome(self.noise_temperature_k)
        THEN Some(RAdd(Unwrap(self.noise_temperature_k),
                       RDiv(block_noise_temperature, stage_power_gain_linear)))
        ELSE Some(RAdd(RInt(DefaultNoiseTemperatureK),
                       RDiv(block_noise_temperature, stage_power_gain_linear)))

Input_sfdr_db(self, cumulative_oip3_dbm, cumulative_noise_figure) ==
    IF IsNone(cumulative_oip3_dbm) THEN None
    ELSE LET noise_floor_dbm ==
                 DbAdd(DbAdd(DbInt(NoiseFloorDbmPerHz),
                             linear_to_db(RInt(self.bandwidth_hz))),
                       cumulative_noise_figure)
         IN  Some(TwoThirdsOfDifference(Unwrap(cumulative_oip3_dbm), noise_floor_dbm))

Input_cascade_block(self, block) ==
    LET block_noise_factor == noise_factor_from_noise_figure(block.noise_figure_db)
        cumulative_noise_factor == block_noise_factor
        cumulative_noise_figure == noise_figure_from_noise_factor(cumulative_noise_factor)
        cumulative_oip3_dbm == block.output_ip3_dbm
    IN  [name |-> <<block.name, "Output">>,
         signal_power_dbm |-> Input_output_power_dbm(self, block),
         signal_frequency_hz |-> self.frequency_hz,
         signal_bandwidth_hz |-> self.bandwidth_hz,
         cumulative_noise_figure_db |-> cumulative_noise_figure,
         cumulative_gain_db |-> Input_stage_power_gain_db(self, block),
         cumulative_noise_temperature |-> Input_cumulative_noise_temperature(self, block),
         noise_power_dbm |->
             Input_output_noise_power_dbm(self, block,
                                          Input_stage_power_gain_db(self, block)),
         cumulative_oip3_dbm |-> cumulative_oip3_dbm,
         sfdr_db |-> Input_sfdr_db(self, cumulative_oip3_dbm, cumulative_noise_figure),
         output_p1db_dbm |-> block.output_p1db_dbm]

\* ------------------------------------------------------------------------
\* SignalNode
\* ------------------------------------------------------------------------
\* a default node at 0 dB of cumulative gain
SignalNode_default_zero_gain ==
    [name |-> <<"default">>,
     signal_power_dbm |-> DbInt(0),
     signal_frequency_hz |-> 0,
     signal_bandwidth_hz |-> 0,
     noise_power_dbm |-> DbInt(0),
     cumulative_noise_figure_db |-> DbInt(0),
     cumulative_gain_db |-> DbInt(0),
     cumulative_noise_temperature |-> None,
     cumulative_oip3_dbm |-> None,
     sfdr_db |-> None,
     output_p1db_dbm |-> None]

SignalNode_default ==
    [name |-> <<"default">>,
     signal_power_dbm |-> DbInt(0),
     signal_frequency_hz |-> 0,
     signal_bandwidth_hz |-> 0,
     noise_power_dbm |-> DbInt(0),
     cumulative_noise_figure_db |-> DbInt(0),
     cumulative_gain_db |-> DbInt(1),
     cumulative_noise_temperature |-> None,
     cumulative_oip3_dbm |-> None,
     sfdr_db |-> None,
     output_p1db_dbm |-> None]

SignalNode_noise_factor(self) ==
    noise_factor_from_noise_figure(self.cumulative_noise_figure_db)

\* the stage output clamped 2 dB above P1dB
SignalNode_output_power_dbm_clamp_at_2db(self, block) ==
    LET output_power_without_compression == DbAdd(self.signal_power_dbm, block.gain_db)
    IN  IF IsSome(block.output_p1db_dbm)
        THEN IF DbGt(output_power_without_compression,
                     DbAdd(Unwrap(block.output_p1db_dbm), DbInt(2)))
             THEN DbAdd(Unwrap(block.output_p1db_dbm), DbInt(2))
             ELSE output_power_without_compression
        ELSE output_power_without_compression

\* the stage output without the clamp
SignalNode_output_power_dbm_unclamped(self, block) ==
    DbAdd(self.signal_power_dbm, block.gain_db)

\* the clamp inlined in SignalNode.cascade_block
SignalNode_output_power_dbm(self, block) ==
    LET output_power_without_compression == DbAdd(self.signal_power_dbm, block.gain_db)
    IN  IF IsSome(block.output_p1db_dbm)
        THEN IF DbGt(output_power_without_compression,
                     DbAdd(Unwrap(block.output_p1db_dbm), DbInt(1)))
             THEN DbAdd(Unwrap(block.output_p1db_dbm), DbInt(1))
             ELSE output_power_without_compression
        ELSE output_power_without_compression

SignalNode_stage_power_gain(self, block) ==
    DbSub(SignalNode_output_power_dbm(self, block), self.signal_power_dbm)

\* the incoming noise clamped whenever the signal is
SignalNode_output_noise_power_dbm_clamped_with_signal(self, block) ==
    LET input_noise_power_dbm == self.noise_power_dbm
        output_noise_power_without_compression ==
            NoiseDbmAdd(input_noise_power_dbm, block.gain_db)
        output_noise_power_from_node_dbm ==
            IF IsSome(block.output_p1db_dbm)
            THEN IF DbGt(DbAdd(self.signal_power_dbm, block.gain_db),
                         DbAdd(Unwrap(block.output_p1db_dbm), DbInt(1)))
                 THEN DbAdd(Unwrap(block.output_p1db_dbm), DbInt(1))
                 ELSE output_noise_power_without_compression
            ELSE output_noise_power_without_compression
        output_noise_power_from_block_dbm ==
            Block_output_noise_power(block, self.signal_bandwidth_hz)
    IN  NoiseWattsSum(output_noise_power_from_node_dbm,
                      output_noise_power_from_block_dbm)

\* the incoming noise through the block's nominal gain, clamped on its own,
\* plus the block's own noise, in watts
SignalNode_output_noise_power_dbm(self, block) ==
    LET input_noise_power_dbm == self.noise_power_dbm
        output_noise_power_without_compression ==
            NoiseDbmAdd(input_noise_power_dbm, block.gain_db)
        output_noise_power_from_node_dbm ==
            IF IsSome(block.output_p1db_dbm)
            THEN IF NoiseDbmGt(output_noise_power_without_compression,
                               DbAdd(Unwrap(block.output_p1db_dbm), DbInt(1)))
                 THEN DbAdd(Unwrap(block.output_p1db_dbm), DbInt(1))
                 ELSE output_noise_power_without_compression
            ELSE output_noise_power_without_compression
        output_noise_power_from_block_dbm ==
            Block_output_noise_power(block, self.signal_bandwidth_hz)
    IN  NoiseWattsSum(output_noise_power_from_node_dbm,
                      output_noise_power_from_block_dbm)

\* the noise factor of the last block alone
SignalNode_cumulative_noise_factor_last_block(self, block) ==
    noise_factor_from_noise_figure(block.noise_figure_db)

\* the Friis term divided by the block's own gain instead of the gain
\* before it
SignalNode_cumulative_noise_factor_own_gain(self, block) ==
    LET block_noise_factor == noise_factor_from_noise_figure(block.noise_figure_db)
        gain_linear == db_to_linear(block.gain_db)
    IN  RAdd(SignalNode_noise_factor(self),
             RDiv(RSub(block_noise_factor, RInt(1)), gain_linear))

\* the Friis term with the block's noise factor instead of its excess
SignalNode_cumulative_noise_factor_no_excess(self, block) ==
    LET block_noise_factor == noise_factor_from_noise_figure(block.noise_figure_db)
        cumulative_gain_linear == db_to_linear(self.cumulative_gain_db)
    IN  RAdd(SignalNode_noise_factor(self),
             RDiv(block_noise_factor, cumulative_gain_linear))

\* Friis accumulation: the block's excess noise over the gain before it
SignalNode_cumulative_noise_factor(self, block) ==
    LET block_noise_factor == noise_factor_from_noise_figure(block.noise_figure_db)
        cumulative_gain_linear == db_to_linear(self.cumulative_gain_db)
    IN  RAdd(SignalNode_noise_factor(self),
             RDiv(RSub(block_noise_factor, RInt(1)), cumulative_gain_linear))

\* the block's temperature referred through the block's own gain as well
SignalNode_cumulative_noise_temperature_through_block(self, block) ==
    LET block_noise_factor == noise_factor_from_noise_figure(block.noise_figure_db)
        block_noise_temperature == noise_temperature_from_noise_factor(block_noise_factor)
        gain_linear == db_to_linear(DbAdd(self.cumulative_gain_db, block.gain_db))
    IN  IF IsSome(self.cumulative_noise_temperature)
        THEN Some(RAdd(Unwrap(self.cumulative_noise_temperature),
                       RDiv(block_noise_temperature, gain_linear)))
        ELSE Some(RAdd(RInt(DefaultNoiseTemperatureK),
                       RDiv(block_noise_temperature, gain_linear)))

SignalNode_cumulative_noise_temperature(self, block) ==
    LET block_noise_factor == noise_factor_from_noise_figure(block.noise_figure_db)
        block_noise_temperature == noise_temperature_from_noise_factor(block_noise_factor)
        cumulative_gain_linear == db_to_linear(self.cumulative_gain_db)
    IN  IF IsSome(self.cumulative_noise_temperature)
        THEN Some(RAdd(Unwrap(self.cumulative_noise_temperature),
                       RDiv(block_noise_temperature, cumulative_gain_linear)))
        ELSE Some(RAdd(RInt(DefaultNoiseTemperatureK),
                       RDiv(block_noise_temperature, cumulative_gain_linear)))

\* the match with the arm (None, Some(b)) giving None
SignalNode_cumulative_oip3_dbm_blanking(self, block) ==
    IF IsSome(self.cumulative_oip3_dbm) /\ IsSome(block.output_ip3_dbm)
    THEN LET prev_oip3_linear == dbm_to_watts(Unwrap(self.cumulative_oip3_dbm))
             block_oip3_linear == dbm_to_watts(Unwrap(block.output_ip3_dbm))
             gain_linear == db_to_linear(block.gain_db)
             inv_cascade == RAdd(RDiv(gain_linear, prev_oip3_linear),
                                 RDiv(RInt(1), block_oip3_linear))
         IN  Some(watts_to_dbm(RDiv(RInt(1), inv_cascade)))
    ELSE None

\* the match on (self.cumulative_oip3_dbm, block.output_ip3_dbm)
SignalNode_cumulative_oip3_dbm(self, block) ==
    IF IsSome(self.cumulative_oip3_dbm) /\ IsSome(block.output_ip3_dbm)
    THEN LET prev_oip3_linear == dbm_to_watts(Unwrap(self.cumulative_oip3_dbm))
             block_oip3_linear == dbm_to_watts(Unwrap(block.output_ip3_dbm))
             gain_linear == db_to_linear(block.gain_db)
             inv_cascade == RAdd(RDiv(gain_linear, prev_oip3_linear),
                                 RDiv(RInt(1), block_oip3_linear))
         IN  Some(watts_to_dbm(RDiv(RInt(1), inv_cascade)))
    ELSE IF IsNone(self.cumulative_oip3_dbm) /\ IsSome(block.output_ip3_dbm)
    THEN Some(Unwrap(block.output_ip3_dbm))
    ELSE None

\* the cumulative gain advanced by the block's nominal gain
SignalNode_new_cumulative_gain_db_nominal(self, block) ==
    DbAdd(self.cumulative_gain_db, block.gain_db)

SignalNode_new_cumulative_gain_db(self, block) ==
    DbAdd(self.cumulative_gain_db, SignalNode_stage_power_gain(self, block))

\* the SFDR over the noise floor of the node before the block
SignalNode_sfdr_db_prior_figure(self, cumulative_oip3_dbm, cumulative_noise_figure) ==
    IF IsNone(cumulative_oip3_dbm) THEN None
    ELSE LET noise_floor_dbm ==
                 DbAdd(DbAdd(DbInt(NoiseFloorDbmPerHz),
                             linear_to_db(RInt(self.signal_bandwidth_hz))),
                       self.cumulative_noise_figure_db)
         IN  Some(TwoThirdsOfDifference(Unwrap(cumulative_oip3_dbm), noise_floor_dbm))

SignalNode_sfdr_db(self, cumulative_oip3_dbm, cumulative_noise_figure) ==
    IF IsNone(cumulative_oip3_dbm) THEN None
    ELSE LET noise_floor_dbm ==
                 DbAdd(DbAdd(DbInt(NoiseFloorDbmPerHz),
                             linear_to_db(RInt(self.signal_bandwidth_hz))),
                       cumulative_noise_figure)
         IN  Some(TwoThirdsOfDifference(Unwrap(cumulative_oip3_dbm), noise_floor_dbm))

\* cascade_block carrying the output_p1db_dbm of the node it starts from
SignalNode_cascade_block_keeps_p1db(self, block) ==
    LET cumulative_noise_figure ==
            noise_figure_from_noise_factor(SignalNode_cumulative_noise_factor(self, block))
        cumulative_oip3_dbm == SignalNode_cumulative_oip3_dbm(self, block)
    IN  [name |-> <<block.name, "Output">>,
         signal_power_dbm |-> SignalNode_output_power_dbm(self, block),
         signal_frequency_hz |-> self.signal_frequency_hz,
         signal_bandwidth_hz |-> self.signal_bandwidth_hz,
         cumulative_noise_figure_db |-> cumulative_noise_figure,
         cumulative_gain_db |-> SignalNode_new_cumulative_gain_db(self, block),
         cumulative_noise_temperature |->
             SignalNode_cumulative_noise_temperature(self, block),
         noise_power_dbm |-> SignalNode_output_noise_power_dbm(self, block),
         cumulative_oip3_dbm |-> cumulative_oip3_dbm,
         sfdr_db |-> SignalNode_sfdr_db(self, cumulative_oip3_dbm,
                                        cumulative_noise_figure),
         output_p1db_dbm |-> self.output_p1db_dbm]

\* cascade_block keeping the name of the node it starts from
SignalNode_cascade_block_keeps_name(self, block) ==
    LET cumulative_noise_figure ==
            noise_figure_from_noise_factor(SignalNode_cumulative_noise_factor(self, block))
        cumulative_oip3_dbm == SignalNode_cumulative_oip3_dbm(self, block)
    IN  [name |-> self.name,
         signal_power_dbm |-> SignalNode_output_power_dbm(self, block),
         signal_frequency_hz |-> self.signal_frequency_hz,
         signal_bandwidth_hz |-> self.signal_bandwidth_hz,
         cumulative_noise_figure_db |-> cumulative_noise_figure,
         cumulative_gain_db |-> SignalNode_new_cumulative_gain_db(self, block),
         cumulative_noise_temperature |->
             SignalNode_cumulative_noise_temperature(self, block),
         noise_power_dbm |-> SignalNode_output_noise_power_dbm(self, block),
         cumulative_oip3_dbm |-> cumulative_oip3_dbm,
         sfdr_db |-> SignalNode_sfdr_db(self, cumulative_oip3_dbm,
                                        cumulative_noise_figure),
         output_p1db_dbm |-> block.output_p1db_dbm]

SignalNode_cascade_block(self, block) ==
    LET cumulative_noise_figure ==
            noise_figure_from_noise_factor(SignalNode_cumulative_noise_factor(self, block))
        cumulative_oip3_dbm == SignalNode_cumulative_oip3_dbm(self, block)
    IN  [name |-> <<block.name, "Output">>,
         signal_power_dbm |-> SignalNode_output_power_dbm(self, block),
         signal_frequency_hz |-> self.signal_frequency_hz,
         signal_bandwidth_hz |-> self.signal_bandwidth_hz,
         cumulative_noise_figure_db |-> cumulative_noise_figure,
         cumulative_gain_db |-> SignalNode_new_cumulative_gain_db(self, block),
         cumulative_noise_temperature |->
             SignalNode_cumulative_noise_temperature(self, block),
         noise_power_dbm |-> SignalNode_output_noise_power_dbm(self, block),
         cumulative_oip3_dbm |-> cumulative_oip3_dbm,
         sfdr_db |-> SignalNode_sfdr_db(self, cumulative_oip3_dbm,
                                        cumulative_noise_figure),
         output_p1db_dbm |-> block.output_p1db_dbm]

SignalNode_dynamic_range_db(self) ==
    IF IsNone(self.output_p1db_dbm) THEN None
    ELSE Some(DbMinusNoise(Unwrap(self.output_p1db_dbm), self.noise_power_dbm))

\* dynamic_range_summary with max_input_dbm left output-referred
SignalNode_dynamic_range_summary_output_referred(self) ==
    IF IsNone(self.output_p1db_dbm) THEN None
    ELSE LET output_p1db == Unwrap(self.output_p1db_dbm)
             linear_dr_db == DbMinusNoise(output_p1db, self.noise_power_dbm)
             max_input_dbm == output_p1db
         IN  Some([linear_dr_db |-> linear_dr_db,
                   sfdr_db |-> self.sfdr_db,
                   mds_dbm |-> self.noise_power_dbm,
                   max_input_dbm |-> max_input_dbm])

SignalNode_dynamic_range_summary(self) ==
    IF IsNone(self.output_p1db_dbm) THEN None
    ELSE LET output_p1db == Unwrap(self.output_p1db_dbm)
             linear_dr_db == DbMinusNoise(output_p1db, self.noise_power_dbm)
             max_input_dbm == DbSub(output_p1db, self.cumulative_gain_db)
         IN  Some([linear_dr_db |-> linear_dr_db,
                   sfdr_db |-> self.sfdr_db,
                   mds_dbm |-> self.noise_power_dbm,
                   max_input_dbm |-> max_input_dbm])

\* ------------------------------------------------------------------------
\* Cascade drivers
\* ------------------------------------------------------------------------
\* fold Input.cascade_block, then SignalNode.cascade_block, over the blocks;
\* only the final node is returned
RECURSIVE cascade_vector_return_output(_, _)
cascade_vector_return_output(input_signal, block_list) ==
    IF block_list = <<>> THEN SignalNode_default
    ELSE IF Len(block_list) = 1
         THEN Input_cascade_block(input_signal, block_list[1])
         ELSE SignalNode_cascade_block(
                  cascade_vector_return_output(
                      input_signal, SubSeq(block_list, 1, Len(block_list) - 1)),
                  block_list[Len(block_list)])

\* the same fold, keeping every intermediate node
RECURSIVE cascade_vector_fold(_, _, _)
cascade_vector_fold(node_vector, input_signal, rest) ==
    IF rest = <<>> THEN node_vector
    ELSE cascade_vector_fold(
             Append(node_vector,
                    IF node_vector = <<>>
                    THEN Input_cascade_block(input_signal, Head(rest))
                    ELSE SignalNode_cascade_block(node_vector[Len(node_vector)],
                                                  Head(rest))),
             input_signal, Tail(rest))

cascade_vector_return_vector(input_signal, block_list) ==
    cascade_vector_fold(<<>>, input_signal, block_list)

\* ------------------------------------------------------------------------
\* Sweeps
\* ------------------------------------------------------------------------
\* the loop condition without the tolerance and with the stop excluded
sweep_continues_before_stop(pin, stop_dbm, step_db) == 100 * pin < 100 * stop_dbm

\* the loop condition of sweep_range and of am_am_am_pm_sweep,
\*     pin <= stop_dbm + step_db * 0.01,
\* on whole numbers of dB (both sides multiplied by 100)
sweep_continues(pin, stop_dbm, step_db) == 100 * pin <= 100 * stop_dbm + step_db

\* Block.am_am_curve, gain_compression_curve and the map of imd3_sweep,
\* over the input powers produced by sweep_range (whole dB)
am_am_curve(self, input_powers_dbm) ==
    [i \in 1..Len(input_powers_dbm) |->
        <<DbInt(input_powers_dbm[i]), output_power(self, DbInt(input_powers_dbm[i]))>>]

gain_compression_curve(self, input_powers_dbm) ==
    [i \in 1..Len(input_powers_dbm) |->
        <<DbInt(input_powers_dbm[i]), power_gain(self, DbInt(input_powers_dbm[i]))>>]

imd3_points(self, input_powers_dbm) ==
    [i \in 1..Len(input_powers_dbm) |-> Imd3Point(self, DbInt(input_powers_dbm[i]))]

\* the output power of a chain of blocks: Block.output_power of each block
\* in turn, on the output of the one before
RECURSIVE cascade_output_power(_, _)
cascade_output_power(block_list, input_power) ==
    IF block_list = <<>> THEN input_power
    ELSE cascade_output_power(Tail(block_list),
                              output_power(Head(block_list), input_power))

\* the map of cascade_am_am_sweep over the input powers of its range
cascade_am_am_curve(block_list, input_powers_dbm) ==
    [i \in 1..Len(input_powers_dbm) |->
        <<DbInt(input_powers_dbm[i]),
          cascade_output_power(block_list, DbInt(input_powers_dbm[i]))>>]

\* ------------------------------------------------------------------------
\* AmplifierModel
\* ------------------------------------------------------------------------
AmplifierModel_new(block) ==
    [block |-> block, am_pm_coefficient_deg_per_db |-> None,
     saturation_power_dbm |-> None]

AmplifierModel_with_am_pm(block, coeff_deg_per_db) ==
    [block |-> block, am_pm_coefficient_deg_per_db |-> Some(coeff_deg_per_db),
     saturation_power_dbm |-> None]

AmplifierModel_with_saturation(block, psat_dbm) ==
    [block |-> block, am_pm_coefficient_deg_per_db |-> None,
     saturation_power_dbm |-> Some(psat_dbm)]

AmplifierModel_builder(block) ==
    [block |-> block, am_pm_coefficient_deg_per_db |-> None,
     saturation_power_dbm |-> None]

AmplifierModelBuilder_am_pm_coefficient(self, coeff_deg_per_db) ==
    [self EXCEPT !.am_pm_coefficient_deg_per_db = Some(coeff_deg_per_db)]

\* saturation_power starting again from an empty builder
AmplifierModelBuilder_saturation_power_alone(self, psat_dbm) ==
    [block |-> self.block, am_pm_coefficient_deg_per_db |-> None,
     saturation_power_dbm |-> Some(psat_dbm)]

AmplifierModelBuilder_saturation_power(self, psat_dbm) ==
    [self EXCEPT !.saturation_power_dbm = Some(psat_dbm)]

AmplifierModelBuilder_build(self) ==
    [block |-> self.block,
     am_pm_coefficient_deg_per_db |-> self.am_pm_coefficient_deg_per_db,
     saturation_power_dbm |-> self.saturation_power_dbm]

input_p1db_dbm(self) ==
    IF IsNone(self.block.output_p1db_dbm) THEN None
    ELSE Some(DbSub(Unwrap(self.block.output_p1db_dbm), self.block.gain_db))

\* a decibel quantity as a number of dB; rational only for whole dB
DbValue(x) == IF x.q = <<1, 1>> THEN x.k ELSE CHOOSE v \in {} : TRUE

\* phase_shift_at ramping from the output P1dB instead of the input P1dB
phase_shift_at_from_output_p1db(self, input_power_dbm) ==
    IF IsNone(self.am_pm_coefficient_deg_per_db) THEN None
    ELSE IF IsNone(input_p1db_dbm(self)) THEN None
    ELSE LET coeff == Unwrap(self.am_pm_coefficient_deg_per_db)
             delta == DbValue(DbSub(input_power_dbm,
                                    Unwrap(self.block.output_p1db_dbm)))
             clamped == IF delta > 0 THEN delta ELSE 0
         IN  Some(RMul(coeff, RInt(clamped)))

\* phase_shift_at without the clamp of delta at zero
phase_shift_at_unclamped(self, input_power_dbm) ==
    IF IsNone(self.am_pm_coefficient_deg_per_db) THEN None
    ELSE IF IsNone(input_p1db_dbm(self)) THEN None
    ELSE LET coeff == Unwrap(self.am_pm_coefficient_deg_per_db)
             delta == DbValue(DbSub(input_power_dbm, Unwrap(input_p1db_dbm(self))))
         IN  Some(RMul(coeff, RInt(delta)))

phase_shift_at(self, input_power_dbm) ==
    IF IsNone(self.am_pm_coefficient_deg_per_db) THEN None
    ELSE IF IsNone(input_p1db_dbm(self)) THEN None
    ELSE LET coeff == Unwrap(self.am_pm_coefficient_deg_per_db)
             delta == DbValue(DbSub(input_power_dbm, Unwrap(input_p1db_dbm(self))))
             clamped == IF delta > 0 THEN delta ELSE 0
         IN  Some(RMul(coeff, RInt(clamped)))

\* backoff_for_target_phase returning the margin above P1dB, not negated
backoff_for_target_phase_margin(self, max_phase_deg) ==
    IF IsNone(self.am_pm_coefficient_deg_per_db) THEN None
    ELSE LET coeff == Unwrap(self.am_pm_coefficient_deg_per_db)
         IN  IF coeff = RInt(0) THEN None
             ELSE LET allowed_above_p1db == RDiv(max_phase_deg, coeff)
                  IN  Some(allowed_above_p1db)

\* -(max_phase_deg / coeff), in dB; none without a coefficient or with a
\* coefficient of zero
backoff_for_target_phase(self, max_phase_deg) ==
    IF IsNone(self.am_pm_coefficient_deg_per_db) THEN None
    ELSE LET coeff == Unwrap(self.am_pm_coefficient_deg_per_db)
         IN  IF coeff = RInt(0) THEN None
             ELSE LET allowed_above_p1db == RDiv(max_phase_deg, coeff)
                  IN  Some(RSub(RInt(0), allowed_above_p1db))

\* one AmplifierPoint of am_am_am_pm_sweep
AmplifierPoint(self, pin) ==
    LET pout == output_power(self.block, pin)
    IN  [input_dbm |-> pin,
         output_dbm |-> pout,
         gain_db |-> DbSub(pout, pin),
         phase_shift_deg |-> phase_shift_at(self, pin)]

\* ------------------------------------------------------------------------
\* Bounds and input domains
\* ------------------------------------------------------------------------
\* longest chain of blocks explored
MaxStages == 3
\* range of input powers of the point queries, in dBm: from MaxPinBelowZero
\* below 0 dBm to MaxPin above it
MaxPinBelowZero == 32
MinPin == -MaxPinBelowZero
MaxPin == 12
\* number of elements a sweep's vector can hold before its allocation fails
MaxPoints == 6

\* number of setter calls made on one builder before build()
MaxSetterCalls == 3

\* 10*log10(2) dB and 10*log10(4) dB
Db3 == linear_to_db(RInt(2))
Db6 == linear_to_db(RInt(4))

Blocks ==
    { Block("LNA",     DbInt(20),  Db3,       Some(DbInt(9)),   Some(DbInt(20))),
      Block("Atten10", DbInt(-10), DbInt(10), None,             None),
      Block("Atten3",  DbNeg(Db3), Db3,       None,             None),
      Block("Mixer",   DbInt(-10), DbInt(10), Some(DbInt(-1)),  Some(DbInt(10))),
      Block("Switch",  DbInt(-10), DbInt(10), None,             Some(DbInt(40))),
      Block("Driver",  DbInt(10),  Db6,       None,             Some(DbInt(30))),
      Block("PA",      DbInt(10),  DbInt(10), Some(DbInt(-11)), None),
      Block("IFAmp",   DbInt(10),  Db3,       Some(DbInt(19)),  Some(DbInt(10))) }

Inputs ==
    { Input(1000000000, 1000000, DbInt(p), Some(RInt(290))) : p \in {-30, -10, 0} }
    \cup
    { Input(100000000, 100, DbInt(p), None) : p \in {-30, -10, 0} }

\* blocks that compress at the level of the noise
Limiters ==
    { Block("Limiter",      DbInt(0),   Db3,       Some(DbInt(-101)), None),
      Block("LossyLimiter", DbInt(-10), DbInt(10), Some(DbInt(-101)), None) }

\* sweep arguments, in whole dB: start, stop - start, step
SweepStarts == {-12, 8}
SweepSpans == {-1, 0, 2, 4}
SweepSteps == {-1, 0, 1, 2}
\* AM-PM coefficients, in degrees per dB
AmPmCoefficients == {<<1, 2>>, <<2, 1>>}
\* coefficients of the models queried at one power, in degrees per dB
QueryCoefficients == {RInt(0), RInt(-1), <<1, 2>>, RInt(2)}
\* phase budgets, in degrees
MaxPhases == {RInt(0), <<1, 2>>, RInt(2), RInt(5)}
\* saturation powers given to the builder and to with_saturation, in dBm
SaturationPowers == {DbInt(0), DbInt(30)}
\* distances below the operating point at which the phase is read, in dB
BackoffSteps == {0, 1, 2, 15}
\* noise bandwidths of the Block queries, in Hz
Bandwidths == {100, 1000000}

Block_default == Block("default", DbInt(0), DbInt(0), None, None)
Input_default == Input(0, 100, DbInt(0), None)

\* ------------------------------------------------------------------------
\* State
\* ------------------------------------------------------------------------
VARIABLES
    \* a cascade in progress
    input,      \* the Input of the chain being cascaded
    blocks,     \* the blocks cascaded so far, in order
    nodes,      \* the SignalNode produced by each of them, in order
    \* point queries on one Block at successive input powers
    blk,        \* the Block queried and swept
    pin,        \* the input power of the queries, whole dBm
    r_output_power,     \* result of output_power(pin), once called
    r_power_gain,       \* result of power_gain(pin), once called
    r_imd3,             \* result of imd3_output_power_dbm(pin), once called
    r_rejection,        \* result of imd3_rejection_db(pin), once called
    prev_imd3,          \* result of imd3_output_power_dbm(pin - 1), if called
    q_call,             \* the last other query made: its operation, receiver,
                        \* arguments and result
    \* one sweep call
    sw_pc,      \* "idle", "range" (in sweep_range), "ampm" (in the
                \* am_am_am_pm_sweep loop), "done", "alloc_fail"
    sw_kind,    \* the sweep called
    sw_self,    \* its receiver: a Block or an AmplifierModel
    sw_args,    \* <<start_dbm, stop_dbm, step_db>>
    sw_pin,     \* the loop variable pin
    sw_powers,  \* the vector powers of sweep_range
    sw_result   \* the vector returned (or being built)

cvars == <<input, blocks, nodes>>
qvars == <<pin, r_output_power, r_power_gain, r_imd3, r_rejection, prev_imd3,
           q_call>>
svars == <<sw_pc, sw_kind, sw_self, sw_args, sw_pin, sw_powers, sw_result>>
vars == <<input, blocks, nodes, blk, pin, r_output_power, r_power_gain, r_imd3,
          r_rejection, prev_imd3, q_call, sw_pc, sw_kind, sw_self, sw_args, sw_pin,
          sw_powers, sw_result>>

NoCascade == input = Input_default /\ blocks = <<>> /\ nodes = <<>>
NoCall == [op |-> "none", self |-> <<>>, args |-> <<>>, result |-> <<>>]
NoQuery ==
    /\ r_output_power = None /\ r_power_gain = None
    /\ r_imd3 = None /\ r_rejection = None /\ prev_imd3 = None
    /\ q_call = NoCall
NoSweep ==
    /\ sw_pc = "idle" /\ sw_kind = "none" /\ sw_self = Block_default
    /\ sw_args = <<0, 0, 0>> /\ sw_pin = 0 /\ sw_powers = <<>> /\ sw_result = <<>>

\* ------------------------------------------------------------------------
\* Cascade: Input.cascade_block, then SignalNode.cascade_block per block
\* ------------------------------------------------------------------------
Init ==
    /\ input \in Inputs
    /\ blocks = <<>>
    /\ nodes = <<>>
    /\ blk = Block_default /\ pin = 0 /\ NoQuery /\ NoSweep

\* Input.cascade_block: the first stage
FirstStage(b) ==
    /\ nodes = <<>>
    /\ nodes' = <<Input_cascade_block(input, b)>>
    /\ blocks' = <<b>>
    /\ UNCHANGED <<input, blk, qvars, svars>>

\* SignalNode.cascade_block: every later stage
NextStage(b) ==
    /\ nodes # <<>>
    /\ Len(nodes) < MaxStages
    /\ nodes' = Append(nodes, SignalNode_cascade_block(nodes[Len(nodes)], b))
    /\ blocks' = Append(blocks, b)
    /\ UNCHANGED <<input, blk, qvars, svars>>

Next ==
    \/ \E b \in Blocks : FirstStage(b)
    \/ \E b \in Blocks : NextStage(b)

Spec == Init /\ [][Next]_vars

\* ------------------------------------------------------------------------
\* Block: point queries at successive input powers, or one sweep
\* ------------------------------------------------------------------------
BlockInit ==
    /\ NoCascade
    /\ blk \in Blocks
    /\ pin = MinPin
    /\ NoQuery
    /\ NoSweep

Call_output_power ==
    /\ sw_pc = "idle" /\ r_output_power = None
    /\ r_output_power' = Some(output_power(blk, DbInt(pin)))
    /\ UNCHANGED <<cvars, blk, pin, r_power_gain, r_imd3, r_rejection, prev_imd3,
                   q_call, svars>>

Call_power_gain ==
    /\ sw_pc = "idle" /\ r_power_gain = None
    /\ r_power_gain' = Some(power_gain(blk, DbInt(pin)))
    /\ UNCHANGED <<cvars, blk, pin, r_output_power, r_imd3, r_rejection, prev_imd3,
                   q_call, svars>>

Call_imd3_output_power_dbm ==
    /\ sw_pc = "idle" /\ r_imd3 = None
    /\ r_imd3' = Some(imd3_output_power_dbm(blk, DbInt(pin)))
    /\ UNCHANGED <<cvars, blk, pin, r_output_power, r_power_gain, r_rejection, prev_imd3,
                   q_call, svars>>

Call_imd3_rejection_db ==
    /\ sw_pc = "idle" /\ r_rejection = None
    /\ r_rejection' = Some(imd3_rejection_db(blk, DbInt(pin)))
    /\ UNCHANGED <<cvars, blk, pin, r_output_power, r_power_gain, r_imd3, prev_imd3,
                   q_call, svars>>

\* the client moves on to the next input power, 1 dB up
NextPin ==
    /\ sw_pc = "idle" /\ pin < MaxPin
    /\ pin' = pin + 1
    /\ prev_imd3' = r_imd3
    /\ r_output_power' = None /\ r_power_gain' = None
    /\ r_imd3' = None /\ r_rejection' = None
    /\ q_call' = NoCall
    /\ UNCHANGED <<cvars, blk, svars>>

\* a sweep is called on a Block that has not been queried
SweepCallable == sw_pc = "idle" /\ pin = MinPin /\ NoQuery

\* am_am_sweep, gain_compression_sweep: enter sweep_range
Call_block_sweep(kind, start_dbm, stop_dbm, step_db) ==
    /\ SweepCallable
    /\ sw_pc' = "range" /\ sw_kind' = kind /\ sw_self' = blk
    /\ sw_args' = <<start_dbm, stop_dbm, step_db>>
    /\ sw_pin' = start_dbm /\ sw_powers' = <<>> /\ sw_result' = <<>>
    /\ UNCHANGED <<cvars, blk, qvars>>

Call_am_am_sweep(start_dbm, stop_dbm, step_db) ==
    Call_block_sweep("am_am_sweep", start_dbm, stop_dbm, step_db)

Call_gain_compression_sweep(start_dbm, stop_dbm, step_db) ==
    Call_block_sweep("gain_compression_sweep", start_dbm, stop_dbm, step_db)

\* the block lists swept: two and three stages that start with b
BlockLists(b) ==
    {<<b, b2>> : b2 \in Blocks} \cup {<<b, b2, b>> : b2 \in Blocks}

\* cascade_am_am_sweep on a list of blocks
Call_cascade_am_am_sweep(block_list, start_dbm, stop_dbm, step_db) ==
    /\ SweepCallable
    /\ sw_pc' = "range" /\ sw_kind' = "cascade_am_am_sweep"
    /\ sw_self' = block_list
    /\ sw_args' = <<start_dbm, stop_dbm, step_db>>
    /\ sw_pin' = start_dbm /\ sw_powers' = <<>> /\ sw_result' = <<>>
    /\ UNCHANGED <<cvars, blk, qvars>>

\* imd3_sweep: returns the empty vector at once without OIP3
Call_imd3_sweep(start_dbm, stop_dbm, step_db) ==
    /\ SweepCallable
    /\ sw_kind' = "imd3_sweep" /\ sw_self' = blk
    /\ sw_args' = <<start_dbm, stop_dbm, step_db>>
    /\ sw_powers' = <<>> /\ sw_result' = <<>>
    /\ IF IsNone(blk.output_ip3_dbm)
       THEN sw_pc' = "done" /\ sw_pin' = 0
       ELSE sw_pc' = "range" /\ sw_pin' = start_dbm
    /\ UNCHANGED <<cvars, blk, qvars>>

\* sweep_range: one iteration of the while loop
SweepRangeStep ==
    /\ sw_pc = "range"
    /\ sweep_continues(sw_pin, sw_args[2], sw_args[3])
    /\ Len(sw_powers) < MaxPoints
    /\ sw_powers' = Append(sw_powers, sw_pin)
    /\ sw_pin' = sw_pin + sw_args[3]
    /\ UNCHANGED <<cvars, blk, qvars, sw_pc, sw_kind, sw_self, sw_args, sw_result>>

\* sweep_range returns; the caller maps the powers and returns
SweepRangeReturn ==
    /\ sw_pc = "range"
    /\ ~sweep_continues(sw_pin, sw_args[2], sw_args[3])
    /\ sw_result' =
         IF sw_kind = "am_am_sweep" THEN am_am_curve(sw_self, sw_powers)
         ELSE IF sw_kind = "gain_compression_sweep"
              THEN gain_compression_curve(sw_self, sw_powers)
         ELSE IF sw_kind = "cascade_am_am_sweep"
              THEN cascade_am_am_curve(sw_self, sw_powers)
              ELSE imd3_points(sw_self, sw_powers)
    /\ sw_pc' = "done"
    /\ UNCHANGED <<cvars, blk, qvars, sw_kind, sw_self, sw_args, sw_pin, sw_powers>>

\* AmplifierModel.am_am_am_pm_sweep on a model built on the Block
Call_am_am_am_pm_sweep(model, start_dbm, stop_dbm, step_db) ==
    /\ SweepCallable
    /\ sw_pc' = "ampm" /\ sw_kind' = "am_am_am_pm_sweep" /\ sw_self' = model
    /\ sw_args' = <<start_dbm, stop_dbm, step_db>>
    /\ sw_pin' = start_dbm /\ sw_powers' = <<>> /\ sw_result' = <<>>
    /\ UNCHANGED <<cvars, blk, qvars>>

\* am_am_am_pm_sweep: one iteration of the while loop
AmPmSweepStep ==
    /\ sw_pc = "ampm"
    /\ sweep_continues(sw_pin, sw_args[2], sw_args[3])
    /\ Len(sw_result) < MaxPoints
    /\ sw_result' = Append(sw_result, AmplifierPoint(sw_self, DbInt(sw_pin)))
    /\ sw_pin' = sw_pin + sw_args[3]
    /\ UNCHANGED <<cvars, blk, qvars, sw_pc, sw_kind, sw_self, sw_args, sw_powers>>

AmPmSweepReturn ==
    /\ sw_pc = "ampm"
    /\ ~sweep_continues(sw_pin, sw_args[2], sw_args[3])
    /\ sw_pc' = "done"
    /\ UNCHANGED <<cvars, blk, qvars, sw_kind, sw_self, sw_args, sw_pin, sw_powers,
                   sw_result>>

\* the loop pushes onto a full vector: the allocation fails and the
\* process aborts; the sweep never returns
SweepAllocFail ==
    /\ sw_pc \in {"range", "ampm"}
    /\ sweep_continues(sw_pin, sw_args[2], sw_args[3])
    /\ Len(sw_powers) >= MaxPoints \/ Len(sw_result) >= MaxPoints
    /\ sw_pc' = "alloc_fail"
    /\ UNCHANGED <<cvars, blk, qvars, sw_kind, sw_self, sw_args, sw_pin, sw_powers,
                   sw_result>>

AmplifierModels(b) ==
    {AmplifierModel_new(b), AmplifierModel_with_saturation(b, DbInt(30))}
    \cup {AmplifierModel_with_am_pm(b, c) : c \in AmPmCoefficients}

\* a query other than the four above: q_call records it
Call(op, self, args, result) ==
    /\ q_call' = [op |-> op, self |-> self, args |-> args, result |-> result]
    /\ UNCHANGED <<cvars, blk, pin, r_output_power, r_power_gain, r_imd3,
                   r_rejection, prev_imd3, svars>>

\* a query at the input power pin, on a Block not queried at this power
PointQueryCallable == sw_pc = "idle" /\ NoQuery

Call_Block_dynamic_range_db(bandwidth_hz) ==
    Call("Block.dynamic_range_db", blk, <<bandwidth_hz>>,
         Block_dynamic_range_db(blk, bandwidth_hz))

Call_Block_input_dynamic_range_db(bandwidth_hz) ==
    Call("Block.input_dynamic_range_db", blk, <<bandwidth_hz>>,
         Block_input_dynamic_range_db(blk, bandwidth_hz))

\* the nodes at the output of b: b cascaded onto an Input, or onto the
\* node of another first block
NodesAfter(b) ==
    {Input_cascade_block(i, b) : i \in Inputs}
    \cup {SignalNode_cascade_block(Input_cascade_block(i, b0), b) :
          i \in Inputs, b0 \in Blocks}

Call_SignalNode_dynamic_range_db(node) ==
    Call("SignalNode.dynamic_range_db", node, <<>>,
         SignalNode_dynamic_range_db(node))

Call_SignalNode_dynamic_range_summary(node) ==
    Call("SignalNode.dynamic_range_summary", node, <<>>,
         SignalNode_dynamic_range_summary(node))

\* the models queried: the sweeps' models, and models built with both a
\* coefficient (positive, zero or negative) and a saturation power
QueryModels(b) ==
    AmplifierModels(b)
    \cup {AmplifierModelBuilder_build(
           AmplifierModelBuilder_saturation_power(
               AmplifierModelBuilder_am_pm_coefficient(AmplifierModel_builder(b), c),
               DbInt(0))) : c \in QueryCoefficients}

Call_phase_shift_at(model) ==
    /\ PointQueryCallable
    /\ Call("AmplifierModel.phase_shift_at", model, <<DbInt(pin)>>,
            phase_shift_at(model, DbInt(pin)))

Call_backoff_for_target_phase(model, max_phase_deg) ==
    Call("AmplifierModel.backoff_for_target_phase", model, <<max_phase_deg>>,
         backoff_for_target_phase(model, max_phase_deg))

\* the caller's use of the backoff: phase_shift_at read at the input power
\* (output_p1db_dbm - gain_db) - backoff_for_target_phase(max_phase_deg),
\* and at a power below dB under it; made when the backoff is a whole
\* number of dB
Call_phase_shift_at_backoff(model, max_phase_deg, below) ==
    /\ IsSome(model.block.output_p1db_dbm)
    /\ IsSome(backoff_for_target_phase(model, max_phase_deg))
    /\ Unwrap(backoff_for_target_phase(model, max_phase_deg))[2] = 1
    /\ LET backoff == Unwrap(backoff_for_target_phase(model, max_phase_deg))
           input_p1db == DbSub(Unwrap(model.block.output_p1db_dbm),
                               model.block.gain_db)
           input_power_dbm == DbSub(DbSub(input_p1db, DbInt(backoff[1])),
                                    DbInt(below))
       IN  Call("AmplifierModel.phase_shift_at after backoff_for_target_phase",
                model, <<max_phase_deg, below>>,
                [backoff |-> backoff,
                 input_power_dbm |-> input_power_dbm,
                 phase_shift_deg |-> phase_shift_at(model, input_power_dbm)])

Call_Input_noise_power(in) ==
    Call("Input.noise_power", in, <<>>, Input_noise_power(in))

Call_Input_noise_spectral_density(in) ==
    Call("Input.noise_spectral_density", in, <<>>,
         Input_noise_spectral_density(in))

Call_Input_cascade_block(in) ==
    Call("Input.cascade_block", in, <<blk>>, Input_cascade_block(in, blk))

\* the nodes cascaded further: the node of b after an Input, and the node
\* of a second b after that
CascadeReceivers(b) ==
    {Input_cascade_block(i, b) : i \in Inputs}
    \cup {SignalNode_cascade_block(Input_cascade_block(i, b), b) : i \in Inputs}

\* nodes built field by field, without a cumulative noise temperature: at
\* 0 dB of cumulative gain, and behind 10 dB of gain
NodesWithoutTemperature ==
    { [name |-> <<"Input">>,
       signal_power_dbm |-> DbInt(-30),
       signal_frequency_hz |-> 1000000000,
       signal_bandwidth_hz |-> 1000000,
       noise_power_dbm |-> DbInt(-100),
       cumulative_noise_figure_db |-> DbInt(0),
       cumulative_gain_db |-> DbInt(g),
       cumulative_noise_temperature |-> None,
       cumulative_oip3_dbm |-> None,
       sfdr_db |-> None,
       output_p1db_dbm |-> None] : g \in {0, 10} }

Call_SignalNode_cascade_block(node, block) ==
    Call("SignalNode.cascade_block", node, <<block>>,
         SignalNode_cascade_block(node, block))

\* cascade_vector_return_output on an Input and a list of blocks, the empty
\* list included
Call_cascade_vector_return_output(in, block_list) ==
    Call("cascade_vector_return_output", <<>>, <<in, block_list>>,
         cascade_vector_return_output(in, block_list))

Call_AmplifierModel_new ==
    Call("AmplifierModel.new", <<>>, <<blk>>, AmplifierModel_new(blk))

Call_AmplifierModel_with_am_pm(coeff_deg_per_db) ==
    Call("AmplifierModel.with_am_pm", <<>>, <<blk, coeff_deg_per_db>>,
         AmplifierModel_with_am_pm(blk, coeff_deg_per_db))

Call_AmplifierModel_with_saturation(psat_dbm) ==
    Call("AmplifierModel.with_saturation", <<>>, <<blk, psat_dbm>>,
         AmplifierModel_with_saturation(blk, psat_dbm))

\* a call in the chain builder(block).setter(value)...build(): q_call
\* records it together with calls, the setter calls made on the builder so
\* far, each as <<setter, value>>
BuilderCall(op, self, args, result, calls) ==
    /\ q_call' = [op |-> op, self |-> self, args |-> args, result |-> result,
                  calls |-> calls]
    /\ UNCHANGED <<cvars, blk, pin, r_output_power, r_power_gain, r_imd3,
                   r_rejection, prev_imd3, svars>>

\* the last call returned a builder, which the next call consumes
BuilderInHand ==
    /\ sw_pc = "idle"
    /\ q_call.op \in {"AmplifierModel.builder",
                      "AmplifierModelBuilder.am_pm_coefficient",
                      "AmplifierModelBuilder.saturation_power"}

Call_AmplifierModel_builder ==
    /\ SweepCallable
    /\ BuilderCall("AmplifierModel.builder", <<>>, <<blk>>,
                   AmplifierModel_builder(blk), <<>>)

Call_AmplifierModelBuilder_am_pm_coefficient(coeff_deg_per_db) ==
    /\ BuilderInHand
    /\ Len(q_call.calls) < MaxSetterCalls
    /\ BuilderCall("AmplifierModelBuilder.am_pm_coefficient", q_call.result,
                   <<coeff_deg_per_db>>,
                   AmplifierModelBuilder_am_pm_coefficient(q_call.result,
                                                           coeff_deg_per_db),
                   Append(q_call.calls, <<"am_pm_coefficient", coeff_deg_per_db>>))

Call_AmplifierModelBuilder_saturation_power(psat_dbm) ==
    /\ BuilderInHand
    /\ Len(q_call.calls) < MaxSetterCalls
    /\ BuilderCall("AmplifierModelBuilder.saturation_power", q_call.result,
                   <<psat_dbm>>,
                   AmplifierModelBuilder_saturation_power(q_call.result, psat_dbm),
                   Append(q_call.calls, <<"saturation_power", psat_dbm>>))

Call_AmplifierModelBuilder_build ==
    /\ BuilderInHand
    /\ BuilderCall("AmplifierModelBuilder.build", q_call.result, <<>>,
                   AmplifierModelBuilder_build(q_call.result), q_call.calls)

\* a query that takes no input power, made on a Block, a node at its output,
\* a model built on it or an Input, before any query at an input power
ReceiverQuery ==
    /\ SweepCallable
    /\ \/ \E bw \in Bandwidths : Call_Block_dynamic_range_db(bw)
       \/ \E bw \in Bandwidths : Call_Block_input_dynamic_range_db(bw)
       \/ \E n \in NodesAfter(blk) : Call_SignalNode_dynamic_range_db(n)
       \/ \E n \in NodesAfter(blk) : Call_SignalNode_dynamic_range_summary(n)
       \/ \E m \in QueryModels(blk), t \in MaxPhases :
             Call_backoff_for_target_phase(m, t)
       \/ \E m \in QueryModels(blk), t \in MaxPhases, d \in BackoffSteps :
             Call_phase_shift_at_backoff(m, t, d)
       \/ Call_AmplifierModel_new
       \/ \E c \in AmPmCoefficients : Call_AmplifierModel_with_am_pm(c)
       \/ \E p \in SaturationPowers : Call_AmplifierModel_with_saturation(p)
       \/ \E in \in Inputs : Call_Input_noise_power(in)
       \/ \E in \in Inputs : Call_Input_noise_spectral_density(in)
       \/ \E in \in Inputs : Call_Input_cascade_block(in)
       \/ \E in \in Inputs, l \in {<<>>, <<blk>>} \cup BlockLists(blk) :
             Call_cascade_vector_return_output(in, l)
       \/ \E n \in CascadeReceivers(blk) \cup NodesWithoutTemperature,
             b \in Blocks \cup Limiters :
             Call_SignalNode_cascade_block(n, b)

BlockNext ==
    \/ Call_output_power
    \/ Call_power_gain
    \/ Call_imd3_output_power_dbm
    \/ Call_imd3_rejection_db
    \/ NextPin
    \/ ReceiverQuery
    \/ \E m \in QueryModels(blk) : Call_phase_shift_at(m)
    \/ Call_AmplifierModel_builder
    \/ \E c \in AmPmCoefficients : Call_AmplifierModelBuilder_am_pm_coefficient(c)
    \/ \E p \in SaturationPowers : Call_AmplifierModelBuilder_saturation_power(p)
    \/ Call_AmplifierModelBuilder_build
    \/ \E a \in SweepStarts, d \in SweepSpans, s \in SweepSteps :
          Call_am_am_sweep(a, a + d, s)
    \/ \E a \in SweepStarts, d \in SweepSpans, s \in SweepSteps :
          Call_gain_compression_sweep(a, a + d, s)
    \/ \E a \in SweepStarts, d \in SweepSpans, s \in SweepSteps :
          Call_imd3_sweep(a, a + d, s)
    \/ \E m \in AmplifierModels(blk), a \in SweepStarts, d \in SweepSpans,
          s \in SweepSteps :
          Call_am_am_am_pm_sweep(m, a, a + d, s)
    \/ /\ SweepCallable
       /\ \E l \in BlockLists(blk), a \in SweepStarts, d \in SweepSpans,
             s \in SweepSteps :
             Call_cascade_am_am_sweep(l, a, a + d, s)
    \/ SweepRangeStep
    \/ SweepRangeReturn
    \/ AmPmSweepStep
    \/ AmPmSweepReturn
    \/ SweepAllocFail

BlockSpec == BlockInit /\ [][BlockNext]_vars


\* ------------------------------------------------------------------------
\* Properties of the cascade
\* ------------------------------------------------------------------------
\* the signal power entering stage i
StageInputPower(i) == IF i = 1 THEN input.power_dbm ELSE nodes[i - 1].signal_power_dbm

\* stage i drives its block past P1dB + 1 dB
StageClamps(i) ==
    /\ IsSome(blocks[i].output_p1db_dbm)
    /\ DbGt(DbAdd(StageInputPower(i), blocks[i].gain_db),
            DbAdd(Unwrap(blocks[i].output_p1db_dbm), DbInt(1)))

\* the gain stage i actually gave the signal
StageActualGain(i) == DbSub(nodes[i].signal_power_dbm, StageInputPower(i))

RECURSIVE SumActualGain(_)
SumActualGain(n) ==
    IF n = 0 THEN DbInt(0) ELSE DbAdd(SumActualGain(n - 1), StageActualGain(n))

RECURSIVE SumNominalGain(_)
SumNominalGain(n) ==
    IF n = 0 THEN DbInt(0) ELSE DbAdd(SumNominalGain(n - 1), blocks[n].gain_db)

\* C1: at every node, cumulative_gain_db is the sum of the actual gains of
\* the stages so far (output signal power minus input signal power of each
\* stage, after the clamp), and differs from the sum of the blocks' nominal
\* gain_db as soon as one of those stages clamps.
C1_CumulativeGainIsSumOfActualGains ==
    \A n \in 1..Len(nodes) :
        /\ nodes[n].cumulative_gain_db = SumActualGain(n)
        /\ (\E i \in 1..n : StageClamps(i))
              => nodes[n].cumulative_gain_db # SumNominalGain(n)

C1_Witness ==
    /\ Len(nodes) >= 3
    /\ StageClamps(2)
    /\ nodes[3].cumulative_gain_db = SumActualGain(3)
    /\ nodes[3].cumulative_gain_db # SumNominalGain(3)

RECURSIVE NominalGainProduct(_)
NominalGainProduct(n) ==
    IF n = 0 THEN RInt(1)
    ELSE RMul(NominalGainProduct(n - 1), db_to_linear(blocks[n].gain_db))

RECURSIVE FriisSum(_)
FriisSum(n) ==
    IF n = 1 THEN db_to_linear(blocks[1].noise_figure_db)
    ELSE RAdd(FriisSum(n - 1),
              RDiv(RSub(db_to_linear(blocks[n].noise_figure_db), RInt(1)),
                   NominalGainProduct(n - 1)))

\* C6: in a chain where no stage clamps, the cumulative noise factor of the
\* n-th node is the Friis sum over the first n blocks; the first node's
\* cumulative_noise_figure_db is the first block's own noise_figure_db.
C6_FriisSum ==
    /\ nodes # <<>> => nodes[1].cumulative_noise_figure_db = blocks[1].noise_figure_db
    /\ (\A i \in 1..Len(nodes) : ~StageClamps(i))
          => \A n \in 1..Len(nodes) :
                db_to_linear(nodes[n].cumulative_noise_figure_db) = FriisSum(n)

C6_Witness ==
    /\ Len(nodes) >= 3
    /\ \A i \in 1..3 : ~StageClamps(i)
    /\ blocks[1].gain_db = DbInt(20) /\ blocks[2].gain_db = DbInt(-10)
    /\ blocks[3].noise_figure_db = Db6
    /\ db_to_linear(nodes[3].cumulative_noise_figure_db) = FriisSum(3)
    /\ FriisSum(3) # FriisSum(2)

\* a loss-only block: gain_db = -L, noise_figure_db = L, L >= 0, no P1dB
IsLossOnly(b) ==
    /\ b.gain_db = DbNeg(b.noise_figure_db)
    /\ DbLe(DbInt(0), b.noise_figure_db)
    /\ IsNone(b.output_p1db_dbm)

RECURSIVE SumLoss(_)
SumLoss(n) == IF n = 0 THEN DbInt(0) ELSE DbAdd(SumLoss(n - 1), blocks[n].noise_figure_db)

RECURSIVE ProductLoss(_)
ProductLoss(n) ==
    IF n = 0 THEN RInt(1)
    ELSE RMul(ProductLoss(n - 1), db_to_linear(blocks[n].noise_figure_db))

\* C7: after a chain of loss-only blocks the final node's
\* cumulative_noise_figure_db is the sum of the losses, its
\* cumulative_gain_db is minus that sum, and its noise factor is the product
\* of the linear losses.
C7_PassiveChain ==
    (nodes # <<>> /\ \A i \in 1..Len(blocks) : IsLossOnly(blocks[i]))
        => LET last == nodes[Len(nodes)]
           IN  /\ last.cumulative_noise_figure_db = SumLoss(Len(blocks))
               /\ last.cumulative_gain_db = DbNeg(SumLoss(Len(blocks)))
               /\ SignalNode_noise_factor(last) = ProductLoss(Len(blocks))

C7_Witness ==
    /\ Len(nodes) >= 3
    /\ \A i \in 1..Len(blocks) : IsLossOnly(blocks[i])
    /\ blocks[1] # blocks[2]
    /\ nodes[3].cumulative_noise_figure_db = SumLoss(3)
    /\ DbLt(DbInt(10), SumLoss(3))

\* C8 (as claimed): when the first two blocks both specify output_ip3_dbm,
\* the cumulative OIP3 after the second is no larger than the second block's
\* OIP3 and no larger than the first block's OIP3 plus the second block's
\* gain_db.
C8_Oip3NeverImproves ==
    (Len(nodes) >= 2 /\ IsSome(blocks[1].output_ip3_dbm)
                     /\ IsSome(blocks[2].output_ip3_dbm))
        => LET total == Unwrap(nodes[2].cumulative_oip3_dbm)
           IN  /\ DbLe(total, Unwrap(blocks[2].output_ip3_dbm))
               /\ DbLe(total, DbAdd(Unwrap(blocks[1].output_ip3_dbm),
                                    blocks[2].gain_db))

\* ------------------------------------------------------------------------
\* Properties of the Block queries and sweeps
\* ------------------------------------------------------------------------
\* pin + gain_db of the queried block drives it past P1dB + 1 dB
QueryClamps(p) ==
    /\ IsSome(blk.output_p1db_dbm)
    /\ DbGt(DbAdd(DbInt(p), blk.gain_db), DbAdd(Unwrap(blk.output_p1db_dbm), DbInt(1)))

\* the output power the specification gives, on whole dB where the gain is
ExpectedOutputPower(p) ==
    IF blk.gain_db.q = <<1, 1>>
    THEN LET pout == p + blk.gain_db.k
         IN  IF IsSome(blk.output_p1db_dbm)
                /\ pout > Unwrap(blk.output_p1db_dbm).k + 1
             THEN DbInt(Unwrap(blk.output_p1db_dbm).k + 1)
             ELSE DbInt(pout)
    ELSE DbAdd(DbInt(p), blk.gain_db)

\* C3: output_power(pin) is pin + gain_db, except that with output_p1db_dbm
\* set and pin + gain_db > output_p1db_dbm + 1 it is exactly
\* output_p1db_dbm + 1 (a value equal to output_p1db_dbm + 1 is kept);
\* power_gain(pin) is output_power(pin) - pin.
C3_OutputPowerClamp ==
    /\ IsSome(r_output_power) => Unwrap(r_output_power) = ExpectedOutputPower(pin)
    /\ IsSome(r_power_gain)
          => Unwrap(r_power_gain) = DbSub(ExpectedOutputPower(pin), DbInt(pin))

C3_Witness ==
    /\ IsSome(blk.output_p1db_dbm)
    /\ pin + blk.gain_db.k > Unwrap(blk.output_p1db_dbm).k + 1
    /\ r_output_power = Some(DbAdd(Unwrap(blk.output_p1db_dbm), DbInt(1)))
    /\ IsSome(r_power_gain)
    /\ DbLt(Unwrap(r_power_gain), blk.gain_db)

\* what the loop of a sweep has left before its condition fails: the loop
\* runs while SweepRemaining >= 0
SweepRemaining == 100 * sw_args[2] + sw_args[3] - 100 * sw_pin

\* C5 (as claimed): every sweep terminates for every start_dbm, stop_dbm and
\* step_db: each pass of the loop leaves strictly less of the range to
\* cover, and no sweep grows its vector until memory runs out.
C5_SweepsTerminate ==
    [][/\ (sw_pc \in {"range", "ampm"} /\ sw_pc' = sw_pc)
            => SweepRemaining' < SweepRemaining
       /\ sw_pc' # "alloc_fail"]_vars

\* C9 (as claimed): with output_ip3_dbm set, the IM3 product at pin is 3 dB
\* above the IM3 product at pin - 1, for every pin.
C9_Original_Imd3Slope ==
    (IsSome(blk.output_ip3_dbm) /\ IsSome(r_imd3) /\ IsSome(prev_imd3))
        => DbSub(Unwrap(Unwrap(r_imd3)), Unwrap(Unwrap(prev_imd3))) = DbInt(3)

\* C9 (amended): with output_ip3_dbm set, the IM3 product at pin is 3 dB
\* above the IM3 product at pin - 1 whenever the block does not clamp at
\* pin (output_p1db_dbm absent, or pin + gain_db <= output_p1db_dbm + 1).
C9_Imd3SlopeBelowClamp ==
    (IsSome(blk.output_ip3_dbm) /\ IsSome(r_imd3) /\ IsSome(prev_imd3)
        /\ ~QueryClamps(pin))
        => DbSub(Unwrap(Unwrap(r_imd3)), Unwrap(Unwrap(prev_imd3))) = DbInt(3)

C9_Witness ==
    /\ IsSome(blk.output_ip3_dbm) /\ IsSome(blk.output_p1db_dbm)
    /\ IsSome(r_imd3) /\ IsSome(prev_imd3)
    /\ ~QueryClamps(pin)
    /\ DbSub(Unwrap(Unwrap(r_imd3)), Unwrap(Unwrap(prev_imd3))) = DbInt(3)

\* the IM3 product and the rejection the specification gives, on whole dB
ExpectedImd3(p) ==
    DbInt(3 * DbValue(ExpectedOutputPower(p)) - 2 * DbValue(Unwrap(blk.output_ip3_dbm)))
ExpectedRejection(p) ==
    DbInt(2 * (DbValue(Unwrap(blk.output_ip3_dbm)) - DbValue(ExpectedOutputPower(p))))

\* C10: with output_ip3_dbm set, imd3_output_power_dbm(pin) is
\* 3*output_power(pin) - 2*OIP3 and imd3_rejection_db(pin) is
\* output_power(pin) - imd3_output_power_dbm(pin) = 2*(OIP3 - output_power(pin));
\* every Imd3Point of imd3_sweep carries these values for its input power.
C10_Imd3Relations ==
    IsSome(blk.output_ip3_dbm) =>
        /\ IsSome(r_imd3) => r_imd3 = Some(Some(ExpectedImd3(pin)))
        /\ IsSome(r_rejection) =>
              /\ r_rejection = Some(Some(ExpectedRejection(pin)))
              /\ Unwrap(Unwrap(r_rejection))
                    = DbSub(ExpectedOutputPower(pin), ExpectedImd3(pin))
        /\ (sw_kind = "imd3_sweep" /\ sw_pc = "done") =>
              \A i \in 1..Len(sw_result) :
                 LET pt == sw_result[i]
                     p == DbValue(pt.input_per_tone_dbm)
                 IN  /\ p = sw_powers[i]
                     /\ pt.output_per_tone_dbm = ExpectedOutputPower(p)
                     /\ pt.im3_output_dbm = ExpectedImd3(p)
                     /\ pt.rejection_db = ExpectedRejection(p)
                     /\ Some(pt.im3_output_dbm) = imd3_output_power_dbm(blk, DbInt(p))
                     /\ Some(pt.rejection_db) = imd3_rejection_db(blk, DbInt(p))

C10_Witness ==
    /\ IsSome(blk.output_ip3_dbm) /\ IsSome(blk.output_p1db_dbm)
    /\ sw_kind = "imd3_sweep" /\ sw_pc = "done"
    /\ Len(sw_result) >= 3
    /\ sw_result[1].output_per_tone_dbm # sw_result[3].output_per_tone_dbm
    /\ sw_result[3].output_per_tone_dbm
          = DbAdd(Unwrap(blk.output_p1db_dbm), DbInt(1))
    /\ sw_result[3].rejection_db = ExpectedRejection(sw_powers[3])

\* ------------------------------------------------------------------------
\* Properties of the sweeps' points
\* ------------------------------------------------------------------------
\* the input power of a point of the sweep that ran
SweepInputPower(pt) ==
    IF sw_kind \in {"am_am_sweep", "gain_compression_sweep",
                    "cascade_am_am_sweep"} THEN pt[1]
    ELSE IF sw_kind = "imd3_sweep" THEN pt.input_per_tone_dbm
    ELSE pt.input_dbm

\* the sweep that ran had its prerequisite: every sweep but imd3_sweep on a
\* Block without output_ip3_dbm
SweepHasPoints == ~(sw_kind = "imd3_sweep" /\ IsNone(sw_self.output_ip3_dbm))

\* C11: for step_db > 0 and stop_dbm = start_dbm + k*step_db, k >= 0, a
\* sweep returns exactly k + 1 points, with input powers start_dbm,
\* start_dbm + step_db, ..., stop_dbm in increasing order.
C11_SweepPointCount ==
    (sw_pc = "done" /\ SweepHasPoints /\ sw_args[3] > 0
        /\ sw_args[2] >= sw_args[1]
        /\ (sw_args[2] - sw_args[1]) % sw_args[3] = 0)
        => LET k == (sw_args[2] - sw_args[1]) \div sw_args[3]
           IN  /\ Len(sw_result) = k + 1
               /\ \A i \in 1..Len(sw_result) :
                     SweepInputPower(sw_result[i])
                        = DbInt(sw_args[1] + (i - 1) * sw_args[3])
               /\ SweepInputPower(sw_result[k + 1]) = DbInt(sw_args[2])

C11_Witness ==
    /\ sw_pc = "done" /\ sw_kind = "am_am_am_pm_sweep"
    /\ sw_args[3] = 2 /\ sw_args[2] = sw_args[1] + 4
    /\ Len(sw_result) = 3
    /\ sw_result[3].input_dbm = DbInt(sw_args[2])

\* ------------------------------------------------------------------------
\* Properties of the derived queries
\* ------------------------------------------------------------------------
DynamicRangeQueries ==
    {"Block.dynamic_range_db", "Block.input_dynamic_range_db",
     "SignalNode.dynamic_range_db", "SignalNode.dynamic_range_summary"}

\* C12: a derived query returns a value exactly when its prerequisite is
\* present: the four dynamic-range queries return none iff the receiver's
\* output_p1db_dbm is absent, imd3_output_power_dbm and imd3_rejection_db
\* return none iff output_ip3_dbm is absent, and imd3_sweep returns the
\* empty vector when it is absent.
C12_DerivedQueriesNeedPrerequisite ==
    /\ q_call.op \in DynamicRangeQueries
         => (IsNone(q_call.result) <=> IsNone(q_call.self.output_p1db_dbm))
    /\ r_imd3 # None
         => (IsNone(Unwrap(r_imd3)) <=> IsNone(blk.output_ip3_dbm))
    /\ r_rejection # None
         => (IsNone(Unwrap(r_rejection)) <=> IsNone(blk.output_ip3_dbm))
    /\ (sw_kind = "imd3_sweep" /\ sw_pc = "done" /\ IsNone(sw_self.output_ip3_dbm))
         => sw_result = <<>>

\* a Block with OIP3 but no P1dB: the summary of a node at its output is
\* absent while its IMD3 queries return values
C12_Witness ==
    /\ q_call.op = "SignalNode.dynamic_range_summary"
    /\ IsNone(q_call.self.output_p1db_dbm) /\ IsNone(q_call.result)
    /\ IsSome(blk.output_ip3_dbm)
    /\ r_imd3 # None /\ IsSome(Unwrap(r_imd3))
    /\ r_rejection # None /\ IsSome(Unwrap(r_rejection))

\* C13: for a SignalNode with output_p1db_dbm = p present,
\* dynamic_range_summary returns linear_dr_db = p - noise_power_dbm, which
\* is also what dynamic_range_db returns, sfdr_db equal to the node's
\* sfdr_db (absent when the node's is), mds_dbm = noise_power_dbm and
\* max_input_dbm = p - cumulative_gain_db.
C13_DynamicRangeSummaryFields ==
    (q_call.op = "SignalNode.dynamic_range_summary"
        /\ IsSome(q_call.self.output_p1db_dbm))
        => LET node == q_call.self
               p == Unwrap(node.output_p1db_dbm)
           IN  /\ IsSome(q_call.result)
               /\ Unwrap(q_call.result).linear_dr_db
                     = DbMinusNoise(p, node.noise_power_dbm)
               /\ Some(Unwrap(q_call.result).linear_dr_db)
                     = SignalNode_dynamic_range_db(node)
               /\ Unwrap(q_call.result).sfdr_db = node.sfdr_db
               /\ Unwrap(q_call.result).mds_dbm = node.noise_power_dbm
               /\ Unwrap(q_call.result).max_input_dbm
                     = DbSub(p, node.cumulative_gain_db)

\* the summary of a node with SFDR whose cumulative gain is not 0 dB
C13_Witness ==
    /\ q_call.op = "SignalNode.dynamic_range_summary"
    /\ IsSome(q_call.result)
    /\ IsSome(Unwrap(q_call.result).sfdr_db)
    /\ q_call.self.cumulative_gain_db # DbInt(0)
    /\ Unwrap(q_call.result).max_input_dbm # Unwrap(q_call.self.output_p1db_dbm)

\* the summary of a node without SFDR
C13_WitnessNoSfdr ==
    /\ q_call.op = "SignalNode.dynamic_range_summary"
    /\ IsSome(q_call.result)
    /\ IsNone(Unwrap(q_call.result).sfdr_db)

\* ------------------------------------------------------------------------
\* Properties of the AmplifierModel queries
\* ------------------------------------------------------------------------
\* the input-referred P1dB of a Block with P1dB, in whole dBm
InputP1dbOf(b) == DbValue(Unwrap(b.output_p1db_dbm)) - DbValue(b.gain_db)

C14_WitnessBelow ==
    /\ q_call.op = "AmplifierModel.phase_shift_at"
    /\ IsSome(q_call.result)
    /\ pin < InputP1dbOf(q_call.self.block)
    /\ Unwrap(q_call.self.am_pm_coefficient_deg_per_db) # RInt(0)
    /\ Unwrap(q_call.result) = RInt(0)

\* C15: backoff_for_target_phase(max_phase_deg) returns
\* -(max_phase_deg / coeff) for every coefficient other than zero, whatever
\* the block and its P1dB, and a negative value when budget and coefficient
\* are both positive; it returns none, without dividing, when the
\* coefficient is absent or zero.
C15_BackoffForTargetPhase ==
    q_call.op = "AmplifierModel.backoff_for_target_phase"
        => LET m == q_call.self
               max_phase_deg == q_call.args[1]
           IN  IF IsNone(m.am_pm_coefficient_deg_per_db)
                  \/ m.am_pm_coefficient_deg_per_db = Some(RInt(0))
               THEN IsNone(q_call.result)
               ELSE LET coeff == Unwrap(m.am_pm_coefficient_deg_per_db)
                        backoff == Unwrap(q_call.result)
                    IN  /\ IsSome(q_call.result)
                        /\ RMul(backoff, coeff) = RSub(RInt(0), max_phase_deg)
                        /\ (RLt(RInt(0), coeff) /\ RLt(RInt(0), max_phase_deg))
                              => RLt(backoff, RInt(0))
                        /\ q_call.result
                              = backoff_for_target_phase(
                                  [m EXCEPT !.block = Block_default], max_phase_deg)

\* a negative backoff on a model whose block has no P1dB
C15_Witness ==
    /\ q_call.op = "AmplifierModel.backoff_for_target_phase"
    /\ IsSome(q_call.result)
    /\ RLt(Unwrap(q_call.result), RInt(0))
    /\ IsNone(q_call.self.block.output_p1db_dbm)

\* no backoff for a coefficient of zero and a budget that is not zero
C15_WitnessZero ==
    /\ q_call.op = "AmplifierModel.backoff_for_target_phase"
    /\ q_call.self.am_pm_coefficient_deg_per_db = Some(RInt(0))
    /\ q_call.args[1] # RInt(0)
    /\ IsNone(q_call.result)

\* ------------------------------------------------------------------------
\* Monotonicity of the output power
\* ------------------------------------------------------------------------
\* C16: the output power of a block, and of a chain of blocks, at an input
\* power p is at most its output power at any q >= p: the curves of
\* am_am_sweep and of cascade_am_am_sweep never decrease from one point to
\* a later one, and output_power at pin is at least output_power at pin - 1.
C16_OutputPowerMonotone ==
    /\ (sw_pc = "done" /\ sw_kind \in {"am_am_sweep", "cascade_am_am_sweep"})
         => \A i \in 1..Len(sw_result) : \A j \in i..Len(sw_result) :
               /\ DbLe(sw_result[i][1], sw_result[j][1])
               /\ DbLe(sw_result[i][2], sw_result[j][2])
    /\ r_output_power # None
         => DbLe(output_power(blk, DbInt(pin - 1)), Unwrap(r_output_power))

\* the curve of a chain that goes from linear to compressed: it rises and
\* then stays level
C16_Witness ==
    /\ sw_pc = "done" /\ sw_kind = "cascade_am_am_sweep"
    /\ Len(sw_result) >= 3
    /\ DbLt(sw_result[1][2], sw_result[2][2])
    /\ sw_result[Len(sw_result) - 1][2] = sw_result[Len(sw_result)][2]

\* the curve of a single block that compresses
C16_WitnessBlock ==
    /\ sw_pc = "done" /\ sw_kind = "am_am_sweep"
    /\ Len(sw_result) >= 3
    /\ DbLt(sw_result[1][2], sw_result[2][2])
    /\ sw_result[Len(sw_result) - 1][2] = sw_result[Len(sw_result)][2]

\* ------------------------------------------------------------------------
\* Properties of the Input
\* ------------------------------------------------------------------------
InputQueries ==
    {"Input.noise_power", "Input.noise_spectral_density", "Input.cascade_block"}

\* the same Input with a source temperature of 270 K
At270K(in) == [in EXCEPT !.noise_temperature_k = Some(RInt(270))]

\* C17: an Input without noise_temperature_k behaves as the same Input with
\* noise_temperature_k = 270 K: noise_power, noise_spectral_density and the
\* whole node returned by cascade_block are the same for the two, for
\* every block.
C17_DefaultTemperatureIs270K ==
    (q_call.op \in InputQueries /\ IsNone(q_call.self.noise_temperature_k)) =>
        /\ q_call.op = "Input.noise_power"
             => q_call.result = Input_noise_power(At270K(q_call.self))
        /\ q_call.op = "Input.noise_spectral_density"
             => q_call.result = Input_noise_spectral_density(At270K(q_call.self))
        /\ q_call.op = "Input.cascade_block"
             => q_call.result = Input_cascade_block(At270K(q_call.self), q_call.args[1])

\* cascade_block on an Input without temperature, into a block that clamps
\* its signal
C17_Witness ==
    /\ q_call.op = "Input.cascade_block"
    /\ IsNone(q_call.self.noise_temperature_k)
    /\ q_call.result.cumulative_noise_temperature
         = Input_cumulative_noise_temperature(At270K(q_call.self), blk)
    /\ q_call.result.cumulative_gain_db # blk.gain_db

\* noise_power on an Input without temperature
C17_WitnessNoisePower ==
    /\ q_call.op = "Input.noise_power"
    /\ IsNone(q_call.self.noise_temperature_k)
    /\ q_call.result = NoiseDbm(DbAdd(linear_to_db(RInt(270)),
                                      linear_to_db(RInt(q_call.self.bandwidth_hz))))

\* ------------------------------------------------------------------------
\* Properties of the noise through a stage
\* ------------------------------------------------------------------------
\* the first block clamps the signal of the Input
FirstStageClampsSignal ==
    /\ IsSome(blocks[1].output_p1db_dbm)
    /\ DbGt(DbAdd(input.power_dbm, blocks[1].gain_db),
            DbAdd(Unwrap(blocks[1].output_p1db_dbm), DbInt(1)))

\* the source noise through the first block's nominal gain
SourceNoiseAtNominalGain == NoiseDbmAdd(Input_noise_power(input), blocks[1].gain_db)

\* C19: in Input.cascade_block, when the first block clamps the signal while
\* the source noise plus gain_db stays at or below output_p1db_dbm + 1, the
\* source noise reaches the output through the block's nominal gain_db: the
\* node's noise_power_dbm is the sum in watts of the source noise plus
\* gain_db and the block's own output noise.
C19_SourceNoiseNotCompressed ==
    (/\ nodes # <<>>
     /\ FirstStageClampsSignal
     /\ ~NoiseDbmGt(SourceNoiseAtNominalGain,
                    DbAdd(Unwrap(blocks[1].output_p1db_dbm), DbInt(1))))
        => nodes[1].noise_power_dbm
             = NoiseWattsSum(SourceNoiseAtNominalGain,
                             Block_output_noise_power(blocks[1], input.bandwidth_hz))

\* a >= b on noise powers, part by part: the thermal part and the plain
\* part of b are each at most a's
NoiseGe(a, b) ==
    /\ IsSome(NoisePart(b))
         => IsSome(NoisePart(a)) /\ DbLe(Unwrap(NoisePart(b)), Unwrap(NoisePart(a)))
    /\ IsSome(PowerPart(b))
         => IsSome(PowerPart(a)) /\ DbLe(Unwrap(PowerPart(b)), Unwrap(PowerPart(a)))

\* the block of the last SignalNode.cascade_block clamps the signal
CascadeClampsSignal ==
    /\ IsSome(q_call.args[1].output_p1db_dbm)
    /\ DbGt(DbAdd(q_call.self.signal_power_dbm, q_call.args[1].gain_db),
            DbAdd(Unwrap(q_call.args[1].output_p1db_dbm), DbInt(1)))

\* the incoming noise of the last SignalNode.cascade_block through the
\* block's nominal gain
IncomingNoiseAtNominalGain ==
    NoiseDbmAdd(q_call.self.noise_power_dbm, q_call.args[1].gain_db)

\* that noise is above the block's output_p1db_dbm + 1
CascadeClampsNoise ==
    /\ IsSome(q_call.args[1].output_p1db_dbm)
    /\ NoiseDbmGt(IncomingNoiseAtNominalGain,
                  DbAdd(Unwrap(q_call.args[1].output_p1db_dbm), DbInt(1)))

\* C20: in SignalNode.cascade_block the incoming noise contributes
\* noise_power_dbm + the block's nominal gain_db, or output_p1db_dbm + 1
\* when and only when that sum is above it, whether or not the signal was
\* clamped; the node's noise_power_dbm is the sum in watts of this
\* contribution and block.output_noise_power(signal_bandwidth_hz), and is
\* at least each of the two.
C20_NodeNoiseContributions ==
    q_call.op = "SignalNode.cascade_block"
        => LET block == q_call.args[1]
               contribution ==
                   IF CascadeClampsNoise
                   THEN DbAdd(Unwrap(block.output_p1db_dbm), DbInt(1))
                   ELSE IncomingNoiseAtNominalGain
               own == Block_output_noise_power(block, q_call.self.signal_bandwidth_hz)
               noise == q_call.result.noise_power_dbm
           IN  /\ noise = NoiseWattsSum(contribution, own)
               /\ NoiseGe(noise, contribution)
               /\ NoiseGe(noise, own)

\* the signal is clamped and the noise is not: the noise got more gain
\* than the signal
C20_Witness ==
    /\ q_call.op = "SignalNode.cascade_block"
    /\ CascadeClampsSignal /\ ~CascadeClampsNoise
    /\ q_call.result.signal_power_dbm
         = DbAdd(Unwrap(q_call.args[1].output_p1db_dbm), DbInt(1))
    /\ SignalNode_stage_power_gain(q_call.self, q_call.args[1])
         # q_call.args[1].gain_db
    /\ q_call.result.noise_power_dbm
         = NoiseWattsSum(IncomingNoiseAtNominalGain,
                         Block_output_noise_power(q_call.args[1],
                                                  q_call.self.signal_bandwidth_hz))

\* the incoming noise is clamped and the block's own noise is not
C20_WitnessNoiseClamped ==
    /\ q_call.op = "SignalNode.cascade_block"
    /\ CascadeClampsNoise
    /\ PowerPart(q_call.result.noise_power_dbm)
         = Some(DbAdd(Unwrap(q_call.args[1].output_p1db_dbm), DbInt(1)))
    /\ IsSome(NoisePart(q_call.result.noise_power_dbm))

\* a limiter whose incoming noise stays below its clamp
C20_WitnessLimiterNotClamping ==
    /\ q_call.op = "SignalNode.cascade_block"
    /\ q_call.args[1] \in Limiters
    /\ ~CascadeClampsNoise

\* ------------------------------------------------------------------------
\* Properties of the cascade, continued
\* ------------------------------------------------------------------------
\* C21: the signal_power_dbm of every node is Block.output_power of its
\* block at the signal power entering the stage: input.power_dbm for the
\* first node, the previous node's signal_power_dbm for every later node.
\* The clamps inlined in Input.cascade_block and SignalNode.cascade_block
\* agree with Block.output_power.
C21_InlinedClampIsOutputPower ==
    \A n \in 1..Len(nodes) :
        nodes[n].signal_power_dbm = output_power(blocks[n], StageInputPower(n))

C21_Witness ==
    /\ Len(nodes) >= 3
    /\ StageClamps(1) /\ ~StageClamps(2) /\ StageClamps(3)
    /\ \A n \in 1..3 :
          nodes[n].signal_power_dbm = output_power(blocks[n], StageInputPower(n))
    /\ nodes[3].signal_power_dbm # DbAdd(nodes[2].signal_power_dbm, blocks[3].gain_db)

\* ------------------------------------------------------------------------
\* Properties of one cascade_block call
\* ------------------------------------------------------------------------
\* C22: SignalNode.cascade_block returns a cumulative_noise_temperature that
\* is the receiver's cumulative_noise_temperature, or 270 K when the
\* receiver has none, plus 290 * (F_block - 1) divided by the linear gain
\* accumulated before this stage, 10^(cumulative_gain_db / 10) of the
\* receiver; the block's own gain does not enter.
C22_CumulativeNoiseTemperature ==
    q_call.op = "SignalNode.cascade_block"
        => LET self == q_call.self
               block == q_call.args[1]
               prior == IF IsSome(self.cumulative_noise_temperature)
                        THEN Unwrap(self.cumulative_noise_temperature)
                        ELSE RInt(270)
               added == RMul(RInt(290),
                             RSub(db_to_linear(block.noise_figure_db), RInt(1)))
               g_prior == db_to_linear(self.cumulative_gain_db)
           IN  q_call.result.cumulative_noise_temperature
                 = Some(RAdd(prior, RDiv(added, g_prior)))

\* a receiver with a temperature, behind a gain other than 0 dB, cascaded
\* with a block of another gain
C22_Witness ==
    /\ q_call.op = "SignalNode.cascade_block"
    /\ IsSome(q_call.self.cumulative_noise_temperature)
    /\ q_call.self.cumulative_gain_db = DbInt(20)
    /\ q_call.args[1].gain_db = DbInt(-10)
    /\ q_call.result.cumulative_noise_temperature
         = Some(RAdd(Unwrap(q_call.self.cumulative_noise_temperature),
                     <<261, 10>>))

\* a receiver without a temperature, behind 10 dB of gain: 270 K plus the
\* 290 K of a block of noise factor 2, over 10
C22_WitnessDefault ==
    /\ q_call.op = "SignalNode.cascade_block"
    /\ IsNone(q_call.self.cumulative_noise_temperature)
    /\ q_call.self.cumulative_gain_db = DbInt(10)
    /\ q_call.args[1].noise_figure_db = Db3
    /\ q_call.result.cumulative_noise_temperature = Some(RInt(299))

\* the noise floor -174 + 10*log10(bandwidth_hz) + cumulative_noise_figure_db
\* of node n, in dBm
NodeNoiseFloorDbm(n) ==
    DbAdd(DbAdd(DbInt(-174), linear_to_db(RInt(input.bandwidth_hz))),
          nodes[n].cumulative_noise_figure_db)

\* C23: at every node of a chain, sfdr_db is present exactly when
\* cumulative_oip3_dbm is, and is then 2/3 of the difference between
\* cumulative_oip3_dbm and the noise floor -174 + 10*log10(bandwidth_hz) +
\* cumulative_noise_figure_db, with the cumulative noise figure of that same
\* node; the first node's cumulative_oip3_dbm is the first block's
\* output_ip3_dbm.
C23_SfdrFollowsOip3 ==
    /\ \A n \in 1..Len(nodes) :
          /\ IsSome(nodes[n].sfdr_db) <=> IsSome(nodes[n].cumulative_oip3_dbm)
          /\ IsSome(nodes[n].cumulative_oip3_dbm)
                => /\ Unwrap(nodes[n].sfdr_db).c = <<2, 3>>
                   /\ Unwrap(nodes[n].sfdr_db).x = Unwrap(nodes[n].cumulative_oip3_dbm)
                   /\ Unwrap(nodes[n].sfdr_db).y = NodeNoiseFloorDbm(n)
    /\ nodes # <<>> => nodes[1].cumulative_oip3_dbm = blocks[1].output_ip3_dbm

\* a second node with an SFDR whose noise figure differs from the first
\* node's, after which a block without OIP3 leaves a node without SFDR
C23_Witness ==
    /\ Len(nodes) >= 3
    /\ IsSome(nodes[1].sfdr_db) /\ IsSome(nodes[2].sfdr_db)
    /\ nodes[2].cumulative_noise_figure_db # nodes[1].cumulative_noise_figure_db
    /\ nodes[2].cumulative_oip3_dbm # blocks[2].output_ip3_dbm
    /\ Unwrap(nodes[2].sfdr_db).y = NodeNoiseFloorDbm(2)
    /\ IsNone(blocks[3].output_ip3_dbm)
    /\ IsNone(nodes[3].cumulative_oip3_dbm) /\ IsNone(nodes[3].sfdr_db)

\* the frequency and the bandwidth entering the stage that follows the
\* nodes so far
IncomingFrequencyHz ==
    IF nodes = <<>> THEN input.frequency_hz
    ELSE nodes[Len(nodes)].signal_frequency_hz

IncomingBandwidthHz ==
    IF nodes = <<>> THEN input.bandwidth_hz
    ELSE nodes[Len(nodes)].signal_bandwidth_hz

\* C24: every cascade_block call, Input's and SignalNode's, leaves the
\* Input, the nodes before it and their blocks as they were, and adds one
\* node whose signal_frequency_hz and signal_bandwidth_hz are the incoming
\* ones, whose name is the block's name followed by " Output" and whose
\* output_p1db_dbm is that block's; so every node of the chain carries the
\* Input's frequency_hz and bandwidth_hz.
C24_CascadeBlockFrame ==
    [][ /\ input' = input
        /\ Len(nodes') = Len(nodes) + 1 /\ Len(blocks') = Len(nodes')
        /\ \A n \in 1..Len(nodes) : nodes'[n] = nodes[n] /\ blocks'[n] = blocks[n]
        /\ LET node == nodes'[Len(nodes')]
               block == blocks'[Len(blocks')]
           IN  /\ node.signal_frequency_hz = IncomingFrequencyHz
               /\ node.signal_bandwidth_hz = IncomingBandwidthHz
               /\ node.name = <<block.name, "Output">>
               /\ node.output_p1db_dbm = block.output_p1db_dbm
        /\ \A n \in 1..Len(nodes') :
              /\ nodes'[n].signal_frequency_hz = input.frequency_hz
              /\ nodes'[n].signal_bandwidth_hz = input.bandwidth_hz
      ]_vars

\* three stages whose blocks differ in name and in output_p1db_dbm
C24_Witness ==
    /\ Len(nodes) >= 3
    /\ blocks[2].output_p1db_dbm # blocks[3].output_p1db_dbm
    /\ IsSome(blocks[2].output_p1db_dbm) /\ IsSome(blocks[3].output_p1db_dbm)
    /\ blocks[1].name # blocks[2].name
    /\ \A n \in 1..3 :
          /\ nodes[n].name = <<blocks[n].name, "Output">>
          /\ nodes[n].output_p1db_dbm = blocks[n].output_p1db_dbm
          /\ nodes[n].signal_frequency_hz = input.frequency_hz
          /\ nodes[n].signal_bandwidth_hz = input.bandwidth_hz

\* every block of the chain has noise_figure_db >= 0
AllNoiseFiguresNonNegative ==
    \A i \in 1..Len(blocks) : DbLe(DbInt(0), blocks[i].noise_figure_db)

\* C25: in a chain whose blocks all have noise_figure_db >= 0 the
\* cumulative noise figure never decreases from one node to the next, and
\* the last node's cumulative_noise_figure_db is at least the first block's
\* noise_figure_db.
C25_NoiseFigureNeverDecreases ==
    (nodes # <<>> /\ AllNoiseFiguresNonNegative)
        => /\ \A n \in 1..(Len(nodes) - 1) :
                 DbLe(nodes[n].cumulative_noise_figure_db,
                      nodes[n + 1].cumulative_noise_figure_db)
           /\ DbLe(blocks[1].noise_figure_db,
                   nodes[Len(nodes)].cumulative_noise_figure_db)

\* a quiet block behind a noisy one, one stage clamping: the figure still
\* rises at each node
C25_Witness ==
    /\ Len(nodes) >= 3
    /\ AllNoiseFiguresNonNegative
    /\ DbLt(blocks[2].noise_figure_db, blocks[1].noise_figure_db)
    /\ \E i \in 1..3 : StageClamps(i)
    /\ DbLt(nodes[1].cumulative_noise_figure_db, nodes[2].cumulative_noise_figure_db)
    /\ DbLt(nodes[2].cumulative_noise_figure_db, nodes[3].cumulative_noise_figure_db)

C26_WitnessNonEmpty ==
    /\ q_call.op = "cascade_vector_return_output"
    /\ Len(q_call.args[2]) = 3
    /\ q_call.result.name = <<q_call.args[2][3].name, "Output">>
    /\ q_call.result.signal_frequency_hz = q_call.args[1].frequency_hz

\* ------------------------------------------------------------------------
\* Properties of the AmplifierModel constructors and builder
\* ------------------------------------------------------------------------
\* the value of the last call of setter among calls, if there is one
LastSet(calls, setter) ==
    LET made == {i \in 1..Len(calls) : calls[i][1] = setter}
    IN  IF made = {} THEN None
        ELSE Some(calls[CHOOSE i \in made : \A j \in made : j <= i][2])

\* C27: after any sequence of am_pm_coefficient and saturation_power calls
\* on AmplifierModel::builder(block), build() returns a model on that block
\* whose am_pm_coefficient_deg_per_db and saturation_power_dbm each hold the
\* last value set for the field, or nothing if it was never set; a setter
\* changes its own field only; new, with_am_pm and with_saturation set the
\* block and the field they name and leave the other fields absent.
C27_BuilderKeepsLastValues ==
    /\ q_call.op = "AmplifierModelBuilder.build"
          => /\ q_call.result.block = blk
             /\ q_call.result.am_pm_coefficient_deg_per_db
                   = LastSet(q_call.calls, "am_pm_coefficient")
             /\ q_call.result.saturation_power_dbm
                   = LastSet(q_call.calls, "saturation_power")
    /\ q_call.op = "AmplifierModelBuilder.am_pm_coefficient"
          => /\ q_call.result.am_pm_coefficient_deg_per_db = Some(q_call.args[1])
             /\ q_call.result.saturation_power_dbm = q_call.self.saturation_power_dbm
             /\ q_call.result.block = q_call.self.block
    /\ q_call.op = "AmplifierModelBuilder.saturation_power"
          => /\ q_call.result.saturation_power_dbm = Some(q_call.args[1])
             /\ q_call.result.am_pm_coefficient_deg_per_db
                   = q_call.self.am_pm_coefficient_deg_per_db
             /\ q_call.result.block = q_call.self.block
    /\ q_call.op = "AmplifierModel.new"
          => q_call.result = [block |-> q_call.args[1],
                              am_pm_coefficient_deg_per_db |-> None,
                              saturation_power_dbm |-> None]
    /\ q_call.op = "AmplifierModel.with_am_pm"
          => q_call.result = [block |-> q_call.args[1],
                              am_pm_coefficient_deg_per_db |-> Some(q_call.args[2]),
                              saturation_power_dbm |-> None]
    /\ q_call.op = "AmplifierModel.with_saturation"
          => q_call.result = [block |-> q_call.args[1],
                              am_pm_coefficient_deg_per_db |-> None,
                              saturation_power_dbm |-> Some(q_call.args[2])]

\* a coefficient set twice with a saturation power set in between: the
\* built model has the second coefficient and the saturation power
C27_Witness ==
    /\ q_call.op = "AmplifierModelBuilder.build"
    /\ Len(q_call.calls) = 3
    /\ q_call.calls[1][1] = "am_pm_coefficient"
    /\ q_call.calls[2][1] = "saturation_power"
    /\ q_call.calls[3][1] = "am_pm_coefficient"
    /\ q_call.calls[3][2] # q_call.calls[1][2]
    /\ q_call.result.am_pm_coefficient_deg_per_db = Some(q_call.calls[3][2])
    /\ q_call.result.saturation_power_dbm = Some(q_call.calls[2][2])

\* build() right after builder(): both fields absent
C27_WitnessNeverSet ==
    /\ q_call.op = "AmplifierModelBuilder.build"
    /\ q_call.calls = <<>>
    /\ IsNone(q_call.result.am_pm_coefficient_deg_per_db)
    /\ IsNone(q_call.result.saturation_power_dbm)

C27_WitnessConstructor ==
    /\ q_call.op = "AmplifierModel.with_saturation"
    /\ IsNone(q_call.result.am_pm_coefficient_deg_per_db)

\* ------------------------------------------------------------------------
\* Properties of the signal power along the cascade
\* ------------------------------------------------------------------------
\* C28: at every node of every chain, signal_power_dbm is the Input's
\* power_dbm plus the node's cumulative_gain_db, exactly, whether or not a
\* stage clamps.
C28_SignalIsInputPlusCumulativeGain ==
    \A n \in 1..Len(nodes) :
        nodes[n].signal_power_dbm
          = DbAdd(input.power_dbm, nodes[n].cumulative_gain_db)

\* two clamping stages with a stage between them: the identity holds at
\* the last node, which is not at the input power plus the nominal gains
C28_Witness ==
    /\ Len(nodes) >= 3
    /\ StageClamps(1) /\ StageClamps(3)
    /\ nodes[3].signal_power_dbm
         = DbAdd(input.power_dbm, nodes[3].cumulative_gain_db)
    /\ nodes[3].signal_power_dbm # DbAdd(input.power_dbm, SumNominalGain(3))

\* C29: at every node of every chain whose output_p1db_dbm is present,
\* with value p, signal_power_dbm <= p + 1.
C29_SignalAtMostP1dbPlusOne ==
    \A n \in 1..Len(nodes) :
        IsSome(nodes[n].output_p1db_dbm)
            => DbLe(nodes[n].signal_power_dbm,
                    DbAdd(Unwrap(nodes[n].output_p1db_dbm), DbInt(1)))

\* a later stage driven past its clamp sits at p + 1, and a stage below
\* its clamp sits under it
C29_Witness ==
    /\ Len(nodes) >= 3
    /\ StageClamps(3) /\ ~StageClamps(2)
    /\ IsSome(nodes[2].output_p1db_dbm)
    /\ DbLt(nodes[2].signal_power_dbm,
            DbAdd(Unwrap(nodes[2].output_p1db_dbm), DbInt(1)))
    /\ nodes[3].signal_power_dbm
         = DbAdd(Unwrap(nodes[3].output_p1db_dbm), DbInt(1))

\* ------------------------------------------------------------------------
\* Properties of the phase budget
\* ------------------------------------------------------------------------
\* C30: for a coefficient > 0, a block with output_p1db_dbm and a target
\* max_phase_deg >= 0, phase_shift_at at the input power
\* (output_p1db_dbm - gain_db) - backoff_for_target_phase(max_phase_deg) is
\* max_phase_deg, and at every lower input power it is at most
\* max_phase_deg.
C30_BackoffMeetsPhaseTarget ==
    (/\ q_call.op = "AmplifierModel.phase_shift_at after backoff_for_target_phase"
     /\ RLt(RInt(0), Unwrap(q_call.self.am_pm_coefficient_deg_per_db))
     /\ RLe(RInt(0), q_call.args[1]))
        => LET max_phase_deg == q_call.args[1]
               below == q_call.args[2]
               phase == q_call.result.phase_shift_deg
           IN  /\ IsSome(phase)
               /\ below = 0 => Unwrap(phase) = max_phase_deg
               /\ below > 0 => RLe(Unwrap(phase), max_phase_deg)

\* a target above zero met above the input-referred P1dB of a block with
\* gain
C30_Witness ==
    /\ q_call.op = "AmplifierModel.phase_shift_at after backoff_for_target_phase"
    /\ q_call.self.am_pm_coefficient_deg_per_db = Some(RInt(2))
    /\ q_call.args = <<RInt(2), 0>>
    /\ q_call.self.block.gain_db = DbInt(20)
    /\ q_call.result.backoff = RInt(-1)
    /\ q_call.result.input_power_dbm = DbInt(-10)
    /\ q_call.result.phase_shift_deg = Some(RInt(2))

\* one dB under the operating point of a 5 degree target: less than the
\* target, more than zero
C30_WitnessBelow ==
    /\ q_call.op = "AmplifierModel.phase_shift_at after backoff_for_target_phase"
    /\ q_call.self.am_pm_coefficient_deg_per_db = Some(<<1, 2>>)
    /\ q_call.args = <<RInt(5), 1>>
    /\ q_call.result.phase_shift_deg = Some(<<9, 2>>)

\* a coefficient below zero: the operating point lies under the P1dB and
\* the phase there is zero, not the target
C30_WitnessNegativeCoefficient ==
    /\ q_call.op = "AmplifierModel.phase_shift_at after backoff_for_target_phase"
    /\ q_call.self.am_pm_coefficient_deg_per_db = Some(RInt(-1))
    /\ q_call.args = <<RInt(5), 0>>
    /\ q_call.result.phase_shift_deg = Some(RInt(0))
====
